---- MODULE Spec2Model ----
(***************************************************************************)
(* Model of the WeCom callback engine of openclaw-wecom:                   *)
(*   - the polling (bot) webhook handler and its stream / dedupe           *)
(*     registries (src/wecom/src/wecom-bot.ts, second definition of the    *)
(*     handler, lines 673-2115),                                           *)
(*   - the reply pipeline startAgentForStream and its deliver callback,    *)
(*   - the access-token cache with single-flight refresh                   *)
(*     (src/wecom/src/wecom-api.ts);                                       *)
(*   - the rate limiter of the outbound calls (RateLimiter, wecom-api.ts); *)
(*   - the encrypted envelope: framing, padding, cipher and base64 as the  *)
(*     specification describes them, used by buildEncryptedJsonReply and   *)
(*     decryptBotEncrypted (wecom-bot.ts).                                 *)
(*   - the dispatch of a callback POST to the polling and the ACK/push     *)
(*     handler (src/project/wecom/src/monitor.ts, wecom-bot.ts,            *)
(*     src/wecom/src/wecom-app.ts);                                        *)
(*   - the outbound requests and the transport each of them uses.          *)
(* Time is a discrete clock `now`; the TTLs, the byte budget and the entry *)
(* caps are scaled down (see the bounds) but keep their order.             *)
(***************************************************************************)
EXTENDS Integers, Sequences, FiniteSets, TLC

(***************************************************************************)
(* Bounds of the model.  The program's limits are scaled:                  *)
(*   STREAM_TTL_MS      10 min  -> 2 clock units                           *)
(*   DEDUPE_TTL_MS       2 min  -> 1 clock unit                            *)
(*   STREAM_MAX_BYTES   20,480  -> 6 bytes                                 *)
(*   STREAM_MAX_ENTRIES    500  -> 2 streams                               *)
(*   DEDUPE_MAX_ENTRIES  2,000  -> 2 entries                               *)
(*   InitialWaitMs      800 ms  -> 1 clock unit                            *)
(*   TokenMarginMs       60 s   -> 1 clock unit                            *)
(*   minInterval        200 ms  -> 2 clock units                           *)
(*   retryDelayMs       300 ms  -> 1 clock unit                            *)
(*   MaxConcurrent           3  -> 2 calls in flight                       *)
(* The other bounds limit what is explored: the clock, the streams         *)
(* created, the requests in flight, the deliver calls, the token calls and *)
(* refreshes, the calls given to the limiter, the length of an encrypted   *)
(* text.  retries is the default of the network configuration.             *)
(***************************************************************************)
MaxTime == 3
MaxStreams == 3
MaxInFlight == 2
MaxDelivers == 2
MaxCalls == 2
MaxRefreshes == 2
MaxTokenTime == 3
STREAM_TTL_MS == 2
DEDUPE_TTL_MS == 1
STREAM_MAX_BYTES == 6
STREAM_MAX_ENTRIES == 2
DEDUPE_MAX_ENTRIES == 2
InitialWaitMs == 1
TokenMarginMs == 1
MaxJobs == 3
MaxConcurrent == 2
MaxLimiterTime == 4
minInterval == 2
retryDelayMs == 1
MaxPlainLen == 2
retries == 2

VARIABLES
  now,              \* Date.now()
  streams,          \* Map streamId -> StreamState
  msgidToStreamId,  \* Map msgid -> streamId
  recentEncrypts,   \* Map hash -> {ts, streamId}, in insertion order
  nextStreamId,     \* number of stream ids drawn so far by createStreamId
  reqs,             \* webhook handlers suspended at an await
  pipes,            \* startAgentForStream invocations, by stream id
  delivered,        \* number of deliver calls made so far (all pipelines)
  lastReply,        \* what the last step took up and the HTTP response it wrote
  hist,             \* the sightings of one ciphertext, hist.probe, so far
  acked,            \* per stream whose initial reply was sent: that frame
  scope             \* how far this behaviour is explored (fixed at the start)

VARIABLES
  accessTokenCaches, \* Map corpId -> {token, expiresAt, refreshPromise}
  promises,          \* the refresh promises created so far, by number
  calls,             \* the getWecomAccessToken calls made so far
  answers            \* per corpId: gettoken attempts that have ended so far

VARIABLES
  limiter,           \* the RateLimiter: running, queue, lastExecution
  timers,            \* pending setTimeout callbacks of processQueue, by due time
  jobs               \* the calls given to execute, in the order given

registryVars == <<streams, msgidToStreamId, recentEncrypts, nextStreamId, reqs,
                  pipes, delivered, lastReply, hist, acked, scope>>

botVars == <<now, registryVars>>

tokVars == <<accessTokenCaches, promises, calls, answers>>

VARIABLES
  channel,           \* one reply frame: encrypted, then decrypted by a reader
  dispatch,          \* the targets of one webhook path and a POST to it
  outbound           \* the outbound requests put on the network so far

limVars == <<limiter, timers, jobs>>

cryptoVars == <<channel, dispatch, outbound>>

vars == <<botVars, tokVars, limVars, cryptoVars>>

(***************************************************************************)
(* Strings.  A string is a sequence of characters; a character is a token  *)
(* with the width of its UTF-8 encoding.  "zh", "tu", "ka", "th" stand for *)
(* three-byte CJK characters, "em" for a four-byte emoji, "fffd" is        *)
(* U+FFFD.                                                                 *)
(***************************************************************************)
Width(c) ==
  IF c = "em" THEN 4
  ELSE IF c \in {"zh", "tu", "ka", "th", "fffd"} THEN 3
  ELSE 1

IsSpace(c) == c \in {"sp", "nl"}

RECURSIVE Utf8Encode(_)
Utf8Encode(s) ==
  IF s = <<>> THEN <<>>
  ELSE [i \in 1..Width(Head(s)) |-> <<Head(s), i>>] \o Utf8Encode(Tail(s))

\* Buffer.toString("utf8"): a well-formed sequence decodes to its character,
\* every byte that is not part of one decodes to U+FFFD.
RECURSIVE Utf8Decode(_)
Utf8Decode(b) ==
  IF b = <<>> THEN <<>>
  ELSE LET c == b[1][1]
           w == Width(c)
           whole == /\ b[1][2] = 1
                    /\ Len(b) >= w
                    /\ \A i \in 1..w : b[i] = <<c, i>>
       IN  IF whole THEN <<c>> \o Utf8Decode(SubSeq(b, w + 1, Len(b)))
           ELSE <<"fffd">> \o Utf8Decode(Tail(b))

ByteLength(s) == Len(Utf8Encode(s))

RECURSIVE TrimStart(_)
TrimStart(s) == IF s # <<>> /\ IsSpace(Head(s)) THEN TrimStart(Tail(s)) ELSE s

RECURSIVE TrimEnd(_)
TrimEnd(s) ==
  IF s # <<>> /\ IsSpace(s[Len(s)]) THEN TrimEnd(SubSeq(s, 1, Len(s) - 1)) ELSE s

Trim(s) == TrimEnd(TrimStart(s))

truncateUtf8Bytes(text, maxBytes) ==
  LET buf == Utf8Encode(text)
  IN  IF Len(buf) <= maxBytes THEN text
      ELSE Utf8Decode(SubSeq(buf, Len(buf) - maxBytes + 1, Len(buf)))


(***************************************************************************)
(* Inbound envelopes.  A ciphertext is a token [tag, k]; decrypting it     *)
(* with the account's key gives a fixed plaintext message.                 *)
(*   text 1, text 2 : two different ciphertexts of a direct-chat text      *)
(*                    message with msgid "m1" and a response_url           *)
(*   text 3         : a group-chat text message without msgid              *)
(*   stream k       : a refresh request for stream id k (0: no id given)   *)
(*   event 1, 2     : enter_chat, any other event                          *)
(*   card 1         : a template_card_event with msgid "m2"                *)
(*   bad 1          : a ciphertext that does not decrypt                   *)
(***************************************************************************)
TextEncrypts == {[tag |-> "text", k |-> k] : k \in 1..3}

RefreshEncrypts == {[tag |-> "stream", k |-> k] : k \in 0..MaxStreams}

EventEncrypts == {[tag |-> "event", k |-> k] : k \in 1..2}

CardEncrypts == {[tag |-> "card", k |-> 1]}

BadEncrypts == {[tag |-> "bad", k |-> 1]}

Encrypts == TextEncrypts \cup RefreshEncrypts \cup EventEncrypts \cup CardEncrypts \cup BadEncrypts

Text(k) == [tag |-> "text", k |-> k]

Refresh(k) == [tag |-> "stream", k |-> k]

NoProbe == [tag |-> "none", k |-> 0]

\* The ciphertexts whose handling can create a stream.
StreamEncrypts == TextEncrypts \cup CardEncrypts

StreamIds == 1..MaxStreams

UnknownId == 0

NoMsgid == ""

\* decryptBotEncrypted: TRUE when the envelope decrypts with the account's key.
decryptBotEncrypted(e) == e.tag # "bad"

\* parseWecomPlainMessage of the decrypted text.
parseWecomPlainMessage(e) ==
  [msgtype |-> IF e.tag = "card" THEN "event" ELSE e.tag,
   eventtype |-> IF e.tag = "card" THEN "template_card_event"
                 ELSE IF e.tag = "event" /\ e.k = 1 THEN "enter_chat"
                 ELSE IF e.tag = "event" THEN "other" ELSE "",
   msgid |-> IF e.tag = "text" /\ e.k \in {1, 2} THEN "m1"
             ELSE IF e.tag = "card" THEN "m2" ELSE NoMsgid,
   chattype |-> IF e.tag = "text" /\ e.k = 3 THEN "group" ELSE "single",
   response_url |-> (e.tag = "text" /\ e.k \in {1, 2}) \/ e.tag = "card",
   streamid |-> IF e.tag = "stream" THEN e.k ELSE UnknownId]

\* sha256 of the ciphertext: injective on the envelopes of the model.
hashEncryptPayload(e) == <<"sha256", e.tag, e.k>>

(***************************************************************************)
(* Stream contents that the code writes as literals.                       *)
(***************************************************************************)
Thinking == <<"th">>                    \* the placeholder text

CardSentLabel == <<"[", "ka", "]">>     \* "[...]" written when a card was posted

CardSummary == <<"ka", "a">>            \* the text a card degrades to

MediaNote == <<"[", "tu", "]">>         \* mediaSentLabel(type)

NoError == "undefined"

ErrorMessages == {"boom", ""}           \* err.message of a pipeline failure

ErrorText(m) == IF m = "boom" THEN <<"x">> ELSE <<>>

ErrorContent(m) == <<"E", ":", "sp">> \o ErrorText(m)

\* JavaScript truthiness of state.error
Truthy(err) == err \notin {NoError, ""}

(***************************************************************************)
(* Reply frames.                                                           *)
(***************************************************************************)
buildStreamPlaceholderReply(streamId) ==
  [msgtype |-> "stream", id |-> streamId, finish |-> FALSE, content |-> Thinking]

\* A variant of the stream frame that always reports the stream finished.
buildStreamReplyFinished(state) ==
  [msgtype |-> "stream", id |-> state.streamId, finish |-> TRUE,
   content |-> truncateUtf8Bytes(state.content, STREAM_MAX_BYTES)]

buildStreamReplyFromState(state) ==
  [msgtype |-> "stream", id |-> state.streamId, finish |-> state.finished,
   content |-> truncateUtf8Bytes(state.content, STREAM_MAX_BYTES)]

EmptyFrame == [msgtype |-> "empty", id |-> UnknownId, finish |-> FALSE, content |-> <<>>]

WelcomeFrame == [msgtype |-> "text", id |-> UnknownId, finish |-> FALSE, content |-> <<"a">>]

NoFrame == [msgtype |-> "none", id |-> UnknownId, finish |-> FALSE, content |-> <<>>]

\* A variant of the state for an unknown stream that is not finished.
MissingStreamStateOpen(streamId, t) ==
  [streamId |-> streamId, msgid |-> NoMsgid, responseUrl |-> FALSE,
   updatedAt |-> t, started |-> TRUE, finished |-> FALSE,
   error |-> NoError, content |-> <<>>]

\* The state a refresh request is answered from when the stream is unknown.
MissingStreamState(streamId, t) ==
  [streamId |-> streamId, msgid |-> NoMsgid, responseUrl |-> FALSE,
   updatedAt |-> t, started |-> TRUE, finished |-> TRUE,
   error |-> NoError, content |-> <<>>]

\* The reply built from a snapshot: a stream frame if there is content or an
\* error, the placeholder otherwise.
SnapshotReply(state, streamId) ==
  IF Truthy(state.error) \/ Trim(state.content) # <<>>
  THEN buildStreamReplyFromState(state)
  ELSE buildStreamPlaceholderReply(streamId)

(***************************************************************************)
(* pruneStreams.  Map iteration is insertion order: stream ids are drawn   *)
(* in increasing order and a stream is inserted once, so insertion order   *)
(* of streams is id order; recentEncrypts is kept as a sequence.           *)
(***************************************************************************)
Restrict(f, S) == [x \in S |-> f[x]]

\* A variant of the TTL pass that keeps a stream one clock unit longer.
StreamsAfterTtlSlack(t) ==
  Restrict(streams, {id \in DOMAIN streams : ~(streams[id].updatedAt < t - STREAM_TTL_MS - 1)})

StreamsAfterTtl(t) ==
  Restrict(streams, {id \in DOMAIN streams : ~(streams[id].updatedAt < t - STREAM_TTL_MS)})

\* A variant of the pass over the msgid index that forgets every msgid.
MsgidsAfterPruneForgets(t) == Restrict(msgidToStreamId, {})

MsgidsAfterPrune(t) ==
  Restrict(msgidToStreamId,
           {m \in DOMAIN msgidToStreamId : msgidToStreamId[m] \in DOMAIN StreamsAfterTtl(t)})

DedupeFresh(x, t) == ~(x.ts < t - DEDUPE_TTL_MS)

DedupeAfterTtl(t) == SelectSeq(recentEncrypts, LAMBDA x : DedupeFresh(x, t))

\* A variant of the cap that evicts nothing.
StreamsAfterCapKeeps(s) == s

\* A variant of the order that evicts the streams inserted first.
StreamSortsBeforeInserted(s, a, b) == a < b

\* Array.sort is stable: ties keep insertion order.
StreamSortsBefore(s, a, b) ==
  \/ s[a].updatedAt < s[b].updatedAt
  \/ s[a].updatedAt = s[b].updatedAt /\ a < b

StreamsAfterCap(s) ==
  LET overflow == Cardinality(DOMAIN s) - STREAM_MAX_ENTRIES
      rank(a) == Cardinality({b \in DOMAIN s : StreamSortsBefore(s, b, a)})
  IN  IF Cardinality(DOMAIN s) > STREAM_MAX_ENTRIES
      THEN Restrict(s, {a \in DOMAIN s : rank(a) >= overflow})
      ELSE s

\* A variant of the order that evicts the entries inserted first.
DedupeSortsBeforeInserted(d, i, j) == i < j

DedupeSortsBefore(d, i, j) ==
  \/ d[i].ts < d[j].ts
  \/ d[i].ts = d[j].ts /\ i < j

RECURSIVE KeepIndices(_, _, _)
KeepIndices(d, keep, i) ==
  IF i > Len(d) THEN <<>>
  ELSE (IF i \in keep THEN <<d[i]>> ELSE <<>>) \o KeepIndices(d, keep, i + 1)

DedupeAfterCap(d) ==
  LET overflow == Len(d) - DEDUPE_MAX_ENTRIES
      rank(i) == Cardinality({j \in 1..Len(d) : DedupeSortsBefore(d, j, i)})
  IN  IF Len(d) > DEDUPE_MAX_ENTRIES
      THEN KeepIndices(d, {i \in 1..Len(d) : rank(i) >= overflow}, 1)
      ELSE d

pruneStreams ==
  /\ streams' = StreamsAfterCap(StreamsAfterTtl(now))
  /\ msgidToStreamId' = MsgidsAfterPrune(now)
  /\ recentEncrypts' = DedupeAfterCap(DedupeAfterTtl(now))


(***************************************************************************)
(* Map operations.                                                         *)
(***************************************************************************)
Max(a, b) == IF a >= b THEN a ELSE b

MapPut(f, k, v) == [x \in DOMAIN f \cup {k} |-> IF x = k THEN v ELSE f[x]]

MapDel(f, k) == Restrict(f, DOMAIN f \ {k})

\* Position of the dedupe entry of hash h, 0 when there is none.
DedupeIndex(d, h) ==
  IF \E i \in 1..Len(d) : d[i].hash = h
  THEN CHOOSE i \in 1..Len(d) : d[i].hash = h
  ELSE 0

\* recentEncrypts.delete(h)
DedupeDelete(d, h) == SelectSeq(d, LAMBDA x : x.hash # h)

\* recentEncrypts.set(h, entry): an existing key keeps its place.
DedupeSet(d, h, entry) ==
  IF DedupeIndex(d, h) # 0
  THEN [d EXCEPT ![DedupeIndex(d, h)] = entry]
  ELSE Append(d, entry)

(***************************************************************************)
(* The dedupe check of a POST (the lookup by the ciphertext's hash).       *)
(***************************************************************************)
DedupeEntryOf(e) == recentEncrypts[DedupeIndex(recentEncrypts, hashEncryptPayload(e))]

\* A variant of the dedupe test that takes an entry exactly as old as the
\* TTL for expired.
DedupeHitStrict(e) ==
  /\ DedupeIndex(recentEncrypts, hashEncryptPayload(e)) # 0
  /\ now - DedupeEntryOf(e).ts < DEDUPE_TTL_MS

\* An entry exists and is not older than the TTL.
DedupeHit(e) ==
  /\ DedupeIndex(recentEncrypts, hashEncryptPayload(e)) # 0
  /\ now - DedupeEntryOf(e).ts <= DEDUPE_TTL_MS

\* A variant of the dedupe hit that does not see the entry of a request
\* that has not been answered yet.
DedupeHitLiveOnceAnswered(e) ==
  /\ DedupeHit(e)
  /\ DedupeEntryOf(e).streamId \in DOMAIN streams
  /\ \A q \in DOMAIN reqs : reqs[q].streamId # DedupeEntryOf(e).streamId

\* ... and the stream it names is still in the registry.
DedupeHitLive(e) == DedupeHit(e) /\ DedupeEntryOf(e).streamId \in DOMAIN streams

\* A hit whose stream is gone deletes the entry and falls through.
DedupeAfterMiss(e) ==
  IF DedupeHit(e) THEN DedupeDelete(recentEncrypts, hashEncryptPayload(e))
  ELSE recentEncrypts

(***************************************************************************)
(* Bookkeeping of the model (not program state): the HTTP response that    *)
(* the last step wrote, and the sightings of one ciphertext.               *)
(***************************************************************************)
Respond(via, ask, id, status, frame) ==
  lastReply' = [via |-> via, ask |-> ask, id |-> id, status |-> status,
                body |-> frame]

\* A step that writes no response.
NoReply ==
  [via |-> "none", ask |-> NoProbe, id |-> UnknownId, status |-> -1,
   body |-> NoFrame]

Silent == lastReply' = NoReply

\* A step that takes up envelope e without writing the response yet.
Accepted(e) == lastReply' = [NoReply EXCEPT !.ask = e]

\* The sightings of one ciphertext, hist.probe (fixed at the start), are
\* followed:
\*   chain : "unseen" before its first sighting, "unbroken" while every repeat
\*           came within the dedupe TTL of the sighting before it, "broken"
\*           once a repeat came later than that
\*   seen  : the time of the last sighting
\*   first : the stream created by the first delivery (UnknownId: none)
Sight(e, created) ==
  IF e = hist.probe
  THEN hist' = [probe |-> hist.probe,
                chain |-> IF hist.chain = "unseen" THEN "unbroken"
                          ELSE IF hist.chain = "unbroken"
                                  /\ now - hist.seen <= DEDUPE_TTL_MS
                          THEN "unbroken"
                          ELSE "broken",
                seen |-> now,
                first |-> IF hist.chain = "unseen" THEN created ELSE hist.first]
  ELSE UNCHANGED hist

NewStreamState(streamId, msg, started, finished) ==
  [streamId |-> streamId, msgid |-> msg.msgid, responseUrl |-> msg.response_url,
   updatedAt |-> now, started |-> started, finished |-> finished,
   error |-> NoError, content |-> <<>>]

NoPayload == [text |-> <<>>, media |-> FALSE, card |-> FALSE]

NewPipe(msg) == [pc |-> "run", chatType |-> msg.chattype, payload |-> NoPayload]

Finish(r) == reqs' = MapDel(reqs, r)

(***************************************************************************)
(* handleWecomBotWebhook.                                                  *)
(***************************************************************************)
\* A POST arrives: pruneStreams, the method and query checks, then the
\* handler suspends reading the body.
ReceivePost(r) ==
  /\ r \notin DOMAIN reqs
  /\ \A q \in 1..scope.inflight : q < r => q \in DOMAIN reqs
  /\ pruneStreams
  /\ reqs' = MapPut(reqs, r, [pc |-> "body", streamId |-> UnknownId, startedAt |-> 0])
  /\ Silent
  /\ UNCHANGED <<cryptoVars, limVars, tokVars, scope, acked, now, nextStreamId, pipes, hist, delivered>>

\* A request that is answered or declined without reading a body (no bot
\* target, the GET handshake, another method, missing query values).
ReceiveOther ==
  /\ pruneStreams
  /\ \E status \in {0, 200, 400} : Respond("declined", NoProbe, UnknownId, status, NoFrame)
  /\ UNCHANGED <<cryptoVars, limVars, tokVars, scope, acked, now, nextStreamId, reqs, pipes, hist, delivered>>

\* The body is unreadable or has no encrypt (413/400), no account's signature
\* verifies (not handled: 0), or the account is incomplete (500).
BodyRejected(r) ==
  /\ r \in DOMAIN reqs /\ reqs[r].pc = "body"
  /\ \E status \in {0, 400, 413, 500} : Respond("declined", NoProbe, UnknownId, status, NoFrame)
  /\ Finish(r)
  /\ UNCHANGED <<cryptoVars, limVars, tokVars, scope, acked, now, streams, msgidToStreamId, recentEncrypts, nextStreamId, pipes, hist, delivered>>

\* A variant of the dedupe hit that leaves the entry's timestamp alone.
PostDedupeHitKeepsTs(r, e) ==
  /\ r \in DOMAIN reqs /\ reqs[r].pc = "body"
  /\ DedupeHitLive(e)
  /\ LET entry == DedupeEntryOf(e)
         state == streams[entry.streamId]
     IN  Respond("dedupe", e, entry.streamId, 200, SnapshotReply(state, entry.streamId))
  /\ Sight(e, UnknownId)
  /\ Finish(r)
  /\ UNCHANGED <<cryptoVars, limVars, tokVars, scope, acked, now, streams, msgidToStreamId, recentEncrypts, nextStreamId, pipes, delivered>>

\* Dedupe hit with a live stream: reply from its snapshot, bump the entry.
PostDedupeHit(r, e) ==
  /\ r \in DOMAIN reqs /\ reqs[r].pc = "body"
  /\ DedupeHitLive(e)
  /\ LET entry == DedupeEntryOf(e)
         state == streams[entry.streamId]
     IN  /\ Respond("dedupe", e, entry.streamId, 200, SnapshotReply(state, entry.streamId))
         /\ recentEncrypts' =
              [recentEncrypts EXCEPT ![DedupeIndex(recentEncrypts, hashEncryptPayload(e))].ts = now]
  /\ Sight(e, UnknownId)
  /\ Finish(r)
  /\ UNCHANGED <<cryptoVars, limVars, tokVars, scope, acked, now, streams, msgidToStreamId, nextStreamId, pipes, delivered>>

\* A variant of the failed decryption in which the ciphertext is recorded in
\* the dedupe map before it is decrypted.
PostDecryptFailedRecorded(r, e) ==
  /\ r \in DOMAIN reqs /\ reqs[r].pc = "body"
  /\ ~DedupeHitLive(e)
  /\ ~decryptBotEncrypted(e)
  /\ recentEncrypts' = DedupeSet(DedupeAfterMiss(e), hashEncryptPayload(e),
                         [hash |-> hashEncryptPayload(e), ts |-> now,
                          streamId |-> UnknownId])
  /\ Respond("undecryptable", e, UnknownId, 400, NoFrame)
  /\ Finish(r)
  /\ UNCHANGED <<cryptoVars, limVars, tokVars, scope, acked, now, streams, msgidToStreamId, nextStreamId, pipes, hist, delivered>>

\* The envelope does not decrypt: 400.
PostDecryptFailed(r, e) ==
  /\ r \in DOMAIN reqs /\ reqs[r].pc = "body"
  /\ ~DedupeHitLive(e)
  /\ ~decryptBotEncrypted(e)
  /\ recentEncrypts' = DedupeAfterMiss(e)
  /\ Respond("undecryptable", e, UnknownId, 400, NoFrame)
  /\ Finish(r)
  /\ UNCHANGED <<cryptoVars, limVars, tokVars, scope, acked, now, streams, msgidToStreamId, nextStreamId, pipes, hist, delivered>>

\* A variant of the refresh request that counts as an update of the stream.
PostStreamRefreshTouches(r, e) ==
  /\ r \in DOMAIN reqs /\ reqs[r].pc = "body"
  /\ ~DedupeHitLive(e)
  /\ decryptBotEncrypted(e)
  /\ LET msg == parseWecomPlainMessage(e)
         streamId == msg.streamid
     IN  /\ msg.msgtype = "stream"
         /\ Respond("refresh", e, streamId, 200,
                     IF streamId \in DOMAIN streams
                         THEN buildStreamReplyFromState(streams[streamId])
                         ELSE buildStreamReplyFromState(MissingStreamState(streamId, now)))
         /\ streams' = IF streamId \in DOMAIN streams
                        THEN [streams EXCEPT ![streamId].updatedAt = now]
                        ELSE streams
  /\ recentEncrypts' = DedupeAfterMiss(e)
  /\ Finish(r)
  /\ UNCHANGED <<cryptoVars, limVars, tokVars, scope, acked, now, msgidToStreamId, nextStreamId, pipes, hist, delivered>>

\* msgtype "stream": the refresh request.
PostStreamRefresh(r, e) ==
  /\ r \in DOMAIN reqs /\ reqs[r].pc = "body"
  /\ ~DedupeHitLive(e)
  /\ decryptBotEncrypted(e)
  /\ LET msg == parseWecomPlainMessage(e)
         streamId == msg.streamid
     IN  /\ msg.msgtype = "stream"
         /\ Respond("refresh", e, streamId, 200,
                     IF streamId \in DOMAIN streams
                         THEN buildStreamReplyFromState(streams[streamId])
                         ELSE buildStreamReplyFromState(MissingStreamState(streamId, now)))
  /\ recentEncrypts' = DedupeAfterMiss(e)
  /\ Finish(r)
  /\ UNCHANGED <<cryptoVars, limVars, tokVars, scope, acked, now, streams, msgidToStreamId, nextStreamId, pipes, hist, delivered>>

\* A non-event message whose msgid is already indexed: the placeholder.
PostKnownMsgid(r, e) ==
  /\ r \in DOMAIN reqs /\ reqs[r].pc = "body"
  /\ ~DedupeHitLive(e)
  /\ decryptBotEncrypted(e)
  /\ LET msg == parseWecomPlainMessage(e)
     IN  /\ msg.msgtype \notin {"stream", "event"}
         /\ msg.msgid # NoMsgid /\ msg.msgid \in DOMAIN msgidToStreamId
         /\ Respond("known", e, msgidToStreamId[msg.msgid], 200,
                    buildStreamPlaceholderReply(msgidToStreamId[msg.msgid]))
  /\ recentEncrypts' = DedupeAfterMiss(e)
  /\ Sight(e, UnknownId)
  /\ Finish(r)
  /\ UNCHANGED <<cryptoVars, limVars, tokVars, scope, acked, now, streams, msgidToStreamId, nextStreamId, pipes, delivered>>

\* An event other than template_card_event (enter_chat: the welcome text or
\* the empty frame), or a template_card_event whose msgid is indexed.
PostEvent(r, e) ==
  /\ r \in DOMAIN reqs /\ reqs[r].pc = "body"
  /\ ~DedupeHitLive(e)
  /\ decryptBotEncrypted(e)
  /\ LET msg == parseWecomPlainMessage(e)
     IN  /\ msg.msgtype = "event"
         /\ \/ /\ msg.eventtype = "template_card_event"
               /\ msg.msgid # NoMsgid /\ msg.msgid \in DOMAIN msgidToStreamId
               /\ Respond("event", e, UnknownId, 200, EmptyFrame)
            \/ /\ msg.eventtype = "enter_chat"
               /\ \E welcome \in BOOLEAN :
                    Respond("event", e, UnknownId, 200,
                            IF welcome THEN WelcomeFrame ELSE EmptyFrame)
            \/ /\ msg.eventtype \notin {"template_card_event", "enter_chat"}
               /\ Respond("event", e, UnknownId, 200, EmptyFrame)
  /\ recentEncrypts' = DedupeAfterMiss(e)
  /\ Sight(e, UnknownId)
  /\ Finish(r)
  /\ UNCHANGED <<cryptoVars, limVars, tokVars, scope, acked, now, streams, msgidToStreamId, nextStreamId, pipes, delivered>>

\* A variant of the new template_card_event that records no dedupe entry.
PostCardEventUnrecorded(r, e, core) ==
  /\ r \in DOMAIN reqs /\ reqs[r].pc = "body"
  /\ ~DedupeHitLive(e)
  /\ decryptBotEncrypted(e)
  /\ nextStreamId < scope.streams
  /\ LET msg == parseWecomPlainMessage(e)
         streamId == nextStreamId + 1
     IN  /\ msg.msgtype = "event" /\ msg.eventtype = "template_card_event"
         /\ ~(msg.msgid # NoMsgid /\ msg.msgid \in DOMAIN msgidToStreamId)
         /\ Respond("card", e, streamId, 200, EmptyFrame)
         /\ nextStreamId' = streamId
         /\ msgidToStreamId' = IF msg.msgid # NoMsgid
                               THEN MapPut(msgidToStreamId, msg.msgid, streamId)
                               ELSE msgidToStreamId
         /\ streams' = MapPut(streams, streamId, NewStreamState(streamId, msg, TRUE, ~core))
         /\ recentEncrypts' = DedupeAfterMiss(e)
         /\ pipes' = IF core THEN MapPut(pipes, streamId, NewPipe(msg)) ELSE pipes
         /\ Sight(e, streamId)
  /\ Finish(r)
  /\ UNCHANGED <<cryptoVars, limVars, tokVars, scope, acked, now, delivered>>

\* A new template_card_event: the empty frame is sent, a started stream is
\* created and the pipeline invoked (or, without runtime, the stream is
\* finished at once).  The handler does not wait.
PostCardEvent(r, e, core) ==
  /\ r \in DOMAIN reqs /\ reqs[r].pc = "body"
  /\ ~DedupeHitLive(e)
  /\ decryptBotEncrypted(e)
  /\ nextStreamId < scope.streams
  /\ LET msg == parseWecomPlainMessage(e)
         streamId == nextStreamId + 1
     IN  /\ msg.msgtype = "event" /\ msg.eventtype = "template_card_event"
         /\ ~(msg.msgid # NoMsgid /\ msg.msgid \in DOMAIN msgidToStreamId)
         /\ Respond("card", e, streamId, 200, EmptyFrame)
         /\ nextStreamId' = streamId
         /\ msgidToStreamId' = IF msg.msgid # NoMsgid
                               THEN MapPut(msgidToStreamId, msg.msgid, streamId)
                               ELSE msgidToStreamId
         /\ streams' = MapPut(streams, streamId, NewStreamState(streamId, msg, TRUE, ~core))
         /\ recentEncrypts' = DedupeSet(DedupeAfterMiss(e), hashEncryptPayload(e),
                                        [hash |-> hashEncryptPayload(e), ts |-> now, streamId |-> streamId])
         /\ pipes' = IF core THEN MapPut(pipes, streamId, NewPipe(msg)) ELSE pipes
         /\ Sight(e, streamId)
  /\ Finish(r)
  /\ UNCHANGED <<cryptoVars, limVars, tokVars, scope, acked, now, delivered>>

\* An ordinary message: create the stream, record the ciphertext, invoke the
\* pipeline (or finish the stream when the runtime is missing), then the
\* first, synchronous tick of waitForStreamContent.
PostNewMessage(r, e, core) ==
  /\ r \in DOMAIN reqs /\ reqs[r].pc = "body"
  /\ ~DedupeHitLive(e)
  /\ decryptBotEncrypted(e)
  /\ nextStreamId < scope.streams
  /\ LET msg == parseWecomPlainMessage(e)
         streamId == nextStreamId + 1
     IN  /\ msg.msgtype \notin {"stream", "event"}
         /\ ~(msg.msgid # NoMsgid /\ msg.msgid \in DOMAIN msgidToStreamId)
         /\ nextStreamId' = streamId
         /\ msgidToStreamId' = IF msg.msgid # NoMsgid
                               THEN MapPut(msgidToStreamId, msg.msgid, streamId)
                               ELSE msgidToStreamId
         /\ streams' = MapPut(streams, streamId, NewStreamState(streamId, msg, core, ~core))
         /\ recentEncrypts' = DedupeSet(DedupeAfterMiss(e), hashEncryptPayload(e),
                                        [hash |-> hashEncryptPayload(e), ts |-> now, streamId |-> streamId])
         /\ pipes' = IF core THEN MapPut(pipes, streamId, NewPipe(msg)) ELSE pipes
         /\ reqs' = [reqs EXCEPT ![r] = [pc |-> IF core THEN "wait" ELSE "resolved",
                                         streamId |-> streamId, startedAt |-> now]]
         /\ Sight(e, streamId)
  /\ Accepted(e)
  /\ UNCHANGED <<cryptoVars, limVars, tokVars, scope, acked, now, delivered>>

\* A variant of the wait without the bound on the waiting time.
WaitResolvesNoTimeout(r) ==
  LET streamId == reqs[r].streamId
  IN  IF streamId \notin DOMAIN streams THEN TRUE
      ELSE \/ Truthy(streams[streamId].error)
           \/ streams[streamId].finished
           \/ Trim(streams[streamId].content) # <<>>

\* waitForStreamContent: a timer tick that ends the wait (a tick that finds
\* nothing and re-arms the timer changes no state).
WaitResolves(r) ==
  LET streamId == reqs[r].streamId
  IN  IF streamId \notin DOMAIN streams THEN TRUE
      ELSE \/ Truthy(streams[streamId].error)
           \/ streams[streamId].finished
           \/ Trim(streams[streamId].content) # <<>>
           \/ now - reqs[r].startedAt >= InitialWaitMs

WaitTick(r) ==
  /\ r \in DOMAIN reqs /\ reqs[r].pc = "wait"
  /\ WaitResolves(r)
  /\ reqs' = [reqs EXCEPT ![r].pc = "resolved"]
  /\ Silent
  /\ UNCHANGED <<cryptoVars, limVars, tokVars, scope, acked, now, streams, msgidToStreamId, recentEncrypts, nextStreamId, pipes, hist, delivered>>

\* A variant of the initial reply that is always the placeholder.
InitialReplyPlaceholder(streamId) == buildStreamPlaceholderReply(streamId)

\* After the wait: the initial reply from the snapshot, or the placeholder.
InitialReplyFrame(streamId) ==
  IF /\ streamId \in DOMAIN streams
     /\ (Trim(streams[streamId].content) # <<>> \/ Truthy(streams[streamId].error))
  THEN buildStreamReplyFromState(streams[streamId])
  ELSE buildStreamPlaceholderReply(streamId)

\* A variant of the initial reply that ends the pipeline of its stream.
InitialReplyCancels(r) ==
  /\ r \in DOMAIN reqs /\ reqs[r].pc = "resolved"
  /\ Respond("initial", NoProbe, reqs[r].streamId, 200,
             InitialReplyFrame(reqs[r].streamId))
  /\ acked' = MapPut(acked, reqs[r].streamId, InitialReplyFrame(reqs[r].streamId))
  /\ Finish(r)
  /\ pipes' = MapDel(pipes, reqs[r].streamId)
  /\ UNCHANGED <<cryptoVars, limVars, tokVars, scope, now, streams, msgidToStreamId, recentEncrypts, nextStreamId, hist, delivered>>

InitialReply(r) ==
  /\ r \in DOMAIN reqs /\ reqs[r].pc = "resolved"
  /\ Respond("initial", NoProbe, reqs[r].streamId, 200,
             InitialReplyFrame(reqs[r].streamId))
  /\ acked' = MapPut(acked, reqs[r].streamId, InitialReplyFrame(reqs[r].streamId))
  /\ Finish(r)
  /\ UNCHANGED <<cryptoVars, limVars, tokVars, scope, now, streams, msgidToStreamId, recentEncrypts, nextStreamId, pipes, hist, delivered>>


(***************************************************************************)
(* startAgentForStream: the reply pipeline of one stream.  The dispatcher  *)
(* calls deliver zero or more times, one call after the other, and then    *)
(* resolves (the stream is finished) or rejects (the handler's catch).     *)
(* A payload is a text, a media descriptor that the bridge uploads, or a   *)
(* template card.                                                          *)
(***************************************************************************)
Texts == {<<"a">>, <<"em">>, <<"sp">>}

Payloads ==
  {[text |-> t, media |-> FALSE, card |-> FALSE] : t \in Texts}
    \cup {[text |-> <<>>, media |-> TRUE, card |-> FALSE],
          [text |-> <<"{">>, media |-> FALSE, card |-> TRUE]}

\* A variant of the text append that reopens the stream it writes to.
AppendTextReopens(state, text) ==
  [state EXCEPT
     !.content = truncateUtf8Bytes(
                   IF state.content # <<>>
                   THEN Trim(state.content \o <<"nl", "nl">> \o text)
                   ELSE Trim(text),
                   STREAM_MAX_BYTES),
     !.updatedAt = now,
     !.finished = FALSE]

\* current.content = truncateUtf8Bytes(nextText, STREAM_MAX_BYTES)
AppendText(state, text) ==
  [state EXCEPT
     !.content = truncateUtf8Bytes(
                   IF state.content # <<>>
                   THEN Trim(state.content \o <<"nl", "nl">> \o text)
                   ELSE Trim(text),
                   STREAM_MAX_BYTES),
     !.updatedAt = now]

\* The note written after a media item was sent through the bridge.
AppendMediaNote(state) ==
  [state EXCEPT
     !.content = truncateUtf8Bytes(
                   Trim(IF state.content # <<>>
                        THEN state.content \o <<"nl", "nl">> \o MediaNote
                        ELSE MediaNote),
                   STREAM_MAX_BYTES),
     !.updatedAt = now]

\* The text part of deliver, run on registry s: returns the registry and
\* where the callback is afterwards ("run": returned, "card": awaiting the
\* POST of the card to response_url).
DeliverTextPart(s, streamId, p, chatType) ==
  IF streamId \notin DOMAIN s
  THEN [streams |-> s, pc |-> "run"]
  ELSE IF p.card /\ chatType # "group" /\ s[streamId].responseUrl
  THEN [streams |-> s, pc |-> "card"]
  ELSE [streams |-> [s EXCEPT ![streamId] =
                       AppendText(@, IF p.card THEN CardSummary ELSE p.text)],
        pc |-> "run"]

AfterDeliver(streamId, p, res) ==
  pipes' = [pipes EXCEPT ![streamId] =
              [@ EXCEPT !.pc = res.pc,
                        !.payload = IF res.pc = "run" THEN NoPayload ELSE p]]

\* deliver(payload) without media: the text part runs at once.
Deliver(streamId, p) ==
  /\ streamId \in DOMAIN pipes /\ pipes[streamId].pc = "run"
  /\ delivered < scope.delivers
  /\ delivered' = delivered + 1
  /\ ~p.media
  /\ LET res == DeliverTextPart(streams, streamId, p, pipes[streamId].chatType)
     IN  /\ streams' = res.streams
         /\ AfterDeliver(streamId, p, res)
  /\ Silent
  /\ UNCHANGED <<cryptoVars, limVars, tokVars, scope, acked, now, msgidToStreamId, recentEncrypts, nextStreamId, reqs, hist>>

\* deliver(payload) with media: the callback awaits the upload and send.
DeliverMediaStart(streamId, p) ==
  /\ streamId \in DOMAIN pipes /\ pipes[streamId].pc = "run"
  /\ delivered < scope.delivers
  /\ delivered' = delivered + 1
  /\ p.media
  /\ pipes' = [pipes EXCEPT ![streamId] = [@ EXCEPT !.pc = "media", !.payload = p]]
  /\ Silent
  /\ UNCHANGED <<cryptoVars, limVars, tokVars, scope, acked, now, streams, msgidToStreamId, recentEncrypts, nextStreamId, reqs, hist>>

\* The bridge settles: on success the note is written, a failure is logged;
\* either way the text part follows.
DeliverMediaDone(streamId, sent) ==
  /\ streamId \in DOMAIN pipes /\ pipes[streamId].pc = "media"
  /\ LET p == pipes[streamId].payload
         noted == IF sent /\ streamId \in DOMAIN streams
                  THEN [streams EXCEPT ![streamId] = AppendMediaNote(@)]
                  ELSE streams
         res == DeliverTextPart(noted, streamId, p, pipes[streamId].chatType)
     IN  /\ streams' = res.streams
         /\ AfterDeliver(streamId, p, res)
  /\ Silent
  /\ UNCHANGED <<cryptoVars, limVars, tokVars, scope, acked, now, msgidToStreamId, recentEncrypts, nextStreamId, reqs, hist, delivered>>

\* A variant of the end of the card POST that writes the stream it captured
\* back into the registry.
DeliverCardDoneRestores(streamId, posted) ==
  /\ streamId \in DOMAIN pipes /\ pipes[streamId].pc = "card"
  /\ streams' = IF posted
                THEN MapPut(streams, streamId,
                            [MissingStreamState(streamId, now) EXCEPT
                               !.content = CardSentLabel])
                ELSE streams
  /\ pipes' = [pipes EXCEPT ![streamId] =
                 [@ EXCEPT !.pc = "run", !.payload = NoPayload]]
  /\ Silent
  /\ UNCHANGED <<cryptoVars, limVars, tokVars, scope, acked, now, msgidToStreamId, recentEncrypts, nextStreamId, reqs, hist, delivered>>

\* The POST of the card to response_url settles.  On success the stream
\* object captured before the await is marked finished; when fetch throws,
\* the catch around the card branch swallows the error and the payload's
\* text is appended to the captured object as ordinary text.  Neither has
\* an effect on the registry if the stream was evicted meanwhile.
DeliverCardDone(streamId, posted) ==
  /\ streamId \in DOMAIN pipes /\ pipes[streamId].pc = "card"
  /\ streams' = IF streamId \notin DOMAIN streams THEN streams
                ELSE IF posted
                THEN [streams EXCEPT ![streamId] =
                        [@ EXCEPT !.finished = TRUE,
                                  !.content = IF @ # <<>> THEN @ ELSE CardSentLabel,
                                  !.updatedAt = now]]
                ELSE [streams EXCEPT ![streamId] =
                        AppendText(@, pipes[streamId].payload.text)]
  /\ pipes' = [pipes EXCEPT ![streamId] =
                 [@ EXCEPT !.pc = "run", !.payload = NoPayload]]
  /\ Silent
  /\ UNCHANGED <<cryptoVars, limVars, tokVars, scope, acked, now, msgidToStreamId, recentEncrypts, nextStreamId, reqs, hist, delivered>>

\* dispatchReplyWithBufferedBlockDispatcher resolved: the stream is finished.
PipeFinish(streamId) ==
  /\ streamId \in DOMAIN pipes /\ pipes[streamId].pc = "run"
  /\ streams' = IF streamId \in DOMAIN streams
                THEN [streams EXCEPT ![streamId] =
                        [@ EXCEPT !.finished = TRUE, !.updatedAt = now]]
                ELSE streams
  /\ pipes' = MapDel(pipes, streamId)
  /\ Silent
  /\ UNCHANGED <<cryptoVars, limVars, tokVars, scope, acked, now, msgidToStreamId, recentEncrypts, nextStreamId, reqs, hist, delivered>>

\* A variant of the catch handler that records the error and leaves the
\* stream open.
PipeRaiseLeavesOpen(streamId, m) ==
  /\ streamId \in DOMAIN pipes /\ pipes[streamId].pc = "run"
  /\ streams' = IF streamId \in DOMAIN streams
                THEN [streams EXCEPT ![streamId] =
                        [@ EXCEPT !.error = m,
                                  !.content = IF @ # <<>> THEN @ ELSE ErrorContent(m),
                                  !.updatedAt = now]]
                ELSE streams
  /\ pipes' = MapDel(pipes, streamId)
  /\ Silent
  /\ UNCHANGED <<cryptoVars, limVars, tokVars, scope, acked, now, msgidToStreamId, recentEncrypts, nextStreamId, reqs, hist, delivered>>

\* startAgentForStream rejected: the catch handler of the webhook handler.
PipeRaise(streamId, m) ==
  /\ streamId \in DOMAIN pipes /\ pipes[streamId].pc = "run"
  /\ streams' = IF streamId \in DOMAIN streams
                THEN [streams EXCEPT ![streamId] =
                        [@ EXCEPT !.error = m,
                                  !.content = IF @ # <<>> THEN @ ELSE ErrorContent(m),
                                  !.finished = TRUE,
                                  !.updatedAt = now]]
                ELSE streams
  /\ pipes' = MapDel(pipes, streamId)
  /\ Silent
  /\ UNCHANGED <<cryptoVars, limVars, tokVars, scope, acked, now, msgidToStreamId, recentEncrypts, nextStreamId, reqs, hist, delivered>>

\* Time passes.
Tick ==
  /\ now < scope.time
  /\ now' = now + 1
  /\ Silent
  /\ UNCHANGED <<cryptoVars, limVars, tokVars, scope, acked, streams, msgidToStreamId, recentEncrypts, nextStreamId, reqs, pipes, hist, delivered>>

\* Time passes while a handler waits for its stream: the clock of a wait
\* that has not reached its bound runs on past the time of the scope.
WaitClock ==
  /\ now >= scope.time
  /\ \E r \in DOMAIN reqs :
       reqs[r].pc = "wait" /\ now - reqs[r].startedAt < InitialWaitMs
  /\ now' = now + 1
  /\ Silent
  /\ UNCHANGED <<cryptoVars, limVars, tokVars, scope, acked, streams, msgidToStreamId, recentEncrypts, nextStreamId, reqs, pipes, hist, delivered>>

(***************************************************************************)
(* The polling webhook: the specification.                                 *)
(***************************************************************************)
(***************************************************************************)
(* The access-token cache (wecom-api.ts).  A refresh promise is a record   *)
(*   corpId  : the cache entry it refreshes                                *)
(*   pc      : "fetch" (a gettoken call is on the network), "sleep"        *)
(*             (fetchWithRetry waits before the next attempt), "settled"   *)
(*   attempt : fetchWithRetry's attempt counter                            *)
(*   issued  : gettoken calls put on the network so far                    *)
(*   failedAt : the time the last attempt failed                           *)
(*   fetched : what fetchWithRetry came to: "pending", "response" (it      *)
(*             returned a response) or "error" (it threw the last error)   *)
(*   state, value : "pending", or "fulfilled" with the token, or           *)
(*             "rejected"                                                  *)
(* A call is a record of its corpId, the promise it returned (0: the       *)
(* cached token was returned), its result, and, for the single-flight      *)
(* property, whether a valid token was cached when it started and how many *)
(* gettoken attempts for its corpId had ended by then.                     *)
(***************************************************************************)
CorpIds == {"corpA", "corpB"}

NoToken == 0

NoPromise == 0

ExpiresIn == {1, 3}          \* expires_in of a gettoken answer, in clock units

GetTokenAnswers ==
  {[access_token |-> TRUE, expires_in |-> x] : x \in ExpiresIn}
    \cup {[access_token |-> FALSE, expires_in |-> 0]}

NewCache == [token |-> NoToken, expiresAt |-> 0, refreshPromise |-> NoPromise]

\* accessTokenCaches.get(cacheKey), or the entry the call creates
CacheOf(corpId) ==
  IF corpId \in DOMAIN accessTokenCaches THEN accessTokenCaches[corpId]
  ELSE NewCache

\* A variant of the validity test without the safety margin.
TokenValidNoMargin(cache, t) == cache.token # NoToken /\ cache.expiresAt > t

\* cache.token && cache.expiresAt > now + 60000
TokenValid(cache, t) == cache.token # NoToken /\ cache.expiresAt > t + TokenMarginMs

Pending == [state |-> "pending", value |-> NoToken]

NewCall(corpId, promise, result) ==
  [corpId |-> corpId, promise |-> promise, result |-> result,
   valid |-> TokenValid(CacheOf(corpId), now), epoch |-> answers[corpId]]

\* A refresh as it starts: fetchWithRetry is at attempt 0 and its first
\* gettoken call goes out.
NewRefresh(corpId) ==
  [corpId |-> corpId, pc |-> "fetch", attempt |-> 0, issued |-> 1,
   failedAt |-> 0, fetched |-> "pending", state |-> "pending", value |-> NoToken]

\* A variant of getWecomAccessToken without the test of the in-flight
\* marker: a call that finds no valid token starts a refresh of its own.
getWecomAccessTokenNoJoin(c, corpId) ==
  /\ c \notin DOMAIN calls
  /\ \A q \in 1..MaxCalls : q < c => q \in DOMAIN calls
  /\ LET cache == CacheOf(corpId)
         id == Cardinality(DOMAIN promises) + 1
     IN  IF TokenValid(cache, now)
         THEN /\ calls' = MapPut(calls, c,
                    NewCall(corpId, NoPromise,
                            [state |-> "fulfilled", value |-> cache.token]))
              /\ accessTokenCaches' = MapPut(accessTokenCaches, corpId, cache)
              /\ UNCHANGED promises
         ELSE /\ id <= MaxRefreshes
              /\ promises' = MapPut(promises, id, NewRefresh(corpId))
              /\ accessTokenCaches' = MapPut(accessTokenCaches, corpId,
                    [cache EXCEPT !.refreshPromise = id])
              /\ calls' = MapPut(calls, c, NewCall(corpId, id, Pending))
  /\ UNCHANGED <<cryptoVars, limVars, botVars, answers>>

\* getWecomAccessToken up to its return: the cached token, the refresh in
\* flight, or a new refresh whose first gettoken call goes out.
getWecomAccessToken(c, corpId) ==
  /\ c \notin DOMAIN calls
  /\ \A q \in 1..MaxCalls : q < c => q \in DOMAIN calls
  /\ LET cache == CacheOf(corpId)
         id == Cardinality(DOMAIN promises) + 1
     IN  IF TokenValid(cache, now)
         THEN /\ calls' = MapPut(calls, c,
                    NewCall(corpId, NoPromise,
                            [state |-> "fulfilled", value |-> cache.token]))
              /\ accessTokenCaches' = MapPut(accessTokenCaches, corpId, cache)
              /\ UNCHANGED promises
         ELSE IF cache.refreshPromise # NoPromise
         THEN /\ calls' = MapPut(calls, c,
                    NewCall(corpId, cache.refreshPromise, Pending))
              /\ accessTokenCaches' = MapPut(accessTokenCaches, corpId, cache)
              /\ UNCHANGED promises
         ELSE /\ id <= MaxRefreshes
              /\ promises' = MapPut(promises, id, NewRefresh(corpId))
              /\ accessTokenCaches' = MapPut(accessTokenCaches, corpId,
                    [cache EXCEPT !.refreshPromise = id])
              /\ calls' = MapPut(calls, c, NewCall(corpId, id, Pending))
  /\ UNCHANGED <<cryptoVars, limVars, botVars, answers>>

\* The promise settles; the finally block clears the in-flight marker.
SettleRefresh(id, fetched, state, value) ==
  /\ promises' = [promises EXCEPT ![id] =
                    [@ EXCEPT !.pc = "settled", !.fetched = fetched,
                              !.state = state, !.value = value]]
  /\ answers' = [answers EXCEPT ![promises[id].corpId] = @ + 1]

\* fetch resolves with a response: fetchWithRetry returns it, the body is
\* read, and the token is stored or the refresh throws.
FetchAnswered(id, json) ==
  /\ id \in DOMAIN promises /\ promises[id].pc = "fetch"
  /\ LET corpId == promises[id].corpId
         cache == accessTokenCaches[corpId]
     IN  IF json.access_token
         THEN /\ accessTokenCaches' = [accessTokenCaches EXCEPT ![corpId] =
                    [token |-> id, expiresAt |-> now + json.expires_in,
                     refreshPromise |-> NoPromise]]
              /\ SettleRefresh(id, "response", "fulfilled", id)
         ELSE /\ accessTokenCaches' = [accessTokenCaches EXCEPT ![corpId] =
                    [cache EXCEPT !.refreshPromise = NoPromise]]
              /\ SettleRefresh(id, "response", "rejected", NoToken)
  /\ UNCHANGED <<cryptoVars, limVars, botVars, calls>>

\* A variant of the failed attempt in which the last failure leaves the
\* in-flight marker set.
FetchFailedKeepsMarker(id) ==
  /\ id \in DOMAIN promises /\ promises[id].pc = "fetch"
  /\ LET corpId == promises[id].corpId
     IN  IF promises[id].attempt >= retries
         THEN /\ UNCHANGED accessTokenCaches
              /\ SettleRefresh(id, "error", "rejected", NoToken)
         ELSE /\ promises' = [promises EXCEPT ![id] =
                                [@ EXCEPT !.pc = "sleep", !.failedAt = now]]
              /\ answers' = [answers EXCEPT ![corpId] = @ + 1]
              /\ UNCHANGED accessTokenCaches
  /\ UNCHANGED <<cryptoVars, limVars, botVars, calls>>

\* fetch rejects (transport error or abort on timeout).
FetchFailed(id) ==
  /\ id \in DOMAIN promises /\ promises[id].pc = "fetch"
  /\ LET corpId == promises[id].corpId
     IN  IF promises[id].attempt >= retries
         THEN /\ accessTokenCaches' = [accessTokenCaches EXCEPT ![corpId] =
                    [@ EXCEPT !.refreshPromise = NoPromise]]
              /\ SettleRefresh(id, "error", "rejected", NoToken)
         ELSE /\ promises' = [promises EXCEPT ![id] = [@ EXCEPT !.pc = "sleep", !.failedAt = now]]
              /\ answers' = [answers EXCEPT ![corpId] = @ + 1]
              /\ UNCHANGED accessTokenCaches
  /\ UNCHANGED <<cryptoVars, limVars, botVars, calls>>

\* A variant of the retry that does not sleep.
FetchRetryAtOnce(id) ==
  /\ id \in DOMAIN promises /\ promises[id].pc = "sleep"
  /\ promises' = [promises EXCEPT ![id] =
                    [@ EXCEPT !.pc = "fetch", !.attempt = @ + 1, !.issued = @ + 1]]
  /\ UNCHANGED <<cryptoVars, limVars, botVars, accessTokenCaches, calls, answers>>

\* sleep(retryDelayMs * Math.max(1, attempt + 1)) is over: the next attempt
\* goes out.
FetchRetry(id) ==
  /\ id \in DOMAIN promises /\ promises[id].pc = "sleep"
  /\ now >= promises[id].failedAt + retryDelayMs * Max(1, promises[id].attempt + 1)
  /\ promises' = [promises EXCEPT ![id] =
                    [@ EXCEPT !.pc = "fetch", !.attempt = @ + 1, !.issued = @ + 1]]
  /\ UNCHANGED <<cryptoVars, limVars, botVars, accessTokenCaches, calls, answers>>

\* A caller's await of the refresh promise resumes.
CallSettles(c) ==
  /\ c \in DOMAIN calls /\ calls[c].result.state = "pending"
  /\ promises[calls[c].promise].state # "pending"
  /\ calls' = [calls EXCEPT ![c].result =
                 [state |-> promises[calls[c].promise].state,
                  value |-> promises[calls[c].promise].value]]
  /\ UNCHANGED <<cryptoVars, limVars, botVars, accessTokenCaches, promises, answers>>

\* Time passes while tokens are fetched.
TokenTick ==
  /\ now < MaxTokenTime
  /\ now' = now + 1
  /\ UNCHANGED <<registryVars, tokVars, limVars, cryptoVars>>

(***************************************************************************)
(* The rate limiter (class RateLimiter, wecom-api.ts).  The calls given to *)
(* execute are numbered in the order given; a call is a record of          *)
(*   state     : "queued", "running" (fn was called and has not settled),  *)
(*               "resolved" or "rejected"                                  *)
(*   submitted : the time execute was called                               *)
(*   started   : the time fn was called (meaningful once it was)           *)
(* timers maps a due time to the number of setTimeout callbacks due then.  *)
(* The clock starts long after the epoch: lastExecution = 0 of a new       *)
(* limiter lies more than minInterval before the first call.               *)
(***************************************************************************)
NeverExecuted == 0 - minInterval

\* new RateLimiter({ maxConcurrent, minInterval })
RateLimiter(maxConcurrent) ==
  [maxConcurrent |-> maxConcurrent, running |-> 0, queue |-> <<>>,
   lastExecution |-> NeverExecuted]

\* setTimeout(() => this.processQueue(), waitTime)
setTimeout(t, due) ==
  IF due \in DOMAIN t THEN [t EXCEPT ![due] = @ + 1] ELSE MapPut(t, due, 1)

\* The callback due at `due` has run.
TimerDone(t, due) ==
  IF t[due] = 1 THEN MapDel(t, due) ELSE [t EXCEPT ![due] = @ - 1]

\* A variant of processQueue that does not wait for the interval.
processQueueAtOnce(l, t, j) ==
  IF l.running >= l.maxConcurrent \/ l.queue = <<>>
  THEN limiter' = l /\ timers' = t /\ jobs' = j
  ELSE /\ limiter' = [l EXCEPT !.running = @ + 1, !.lastExecution = now,
                               !.queue = Tail(@)]
       /\ jobs' = [j EXCEPT ![Head(l.queue)] =
                     [@ EXCEPT !.state = "running", !.started = now]]
       /\ timers' = t

\* A variant of processQueue that takes the call queued last.
processQueueNewestFirst(l, t, j) ==
  IF l.running >= l.maxConcurrent \/ l.queue = <<>>
  THEN limiter' = l /\ timers' = t /\ jobs' = j
  ELSE LET waitTime == Max(0, l.lastExecution + minInterval - now)
       IN  IF waitTime > 0
           THEN limiter' = l /\ timers' = setTimeout(t, now + waitTime) /\ jobs' = j
           ELSE /\ limiter' = [l EXCEPT !.running = @ + 1, !.lastExecution = now,
                                        !.queue = SubSeq(@, 1, Len(@) - 1)]
                /\ jobs' = [j EXCEPT ![l.queue[Len(l.queue)]] =
                              [@ EXCEPT !.state = "running", !.started = now]]
                /\ timers' = t

\* A variant of processQueue that sets no timer when the interval has not
\* passed.
processQueueNoTimer(l, t, j) ==
  IF l.running >= l.maxConcurrent \/ l.queue = <<>>
  THEN limiter' = l /\ timers' = t /\ jobs' = j
  ELSE LET waitTime == Max(0, l.lastExecution + minInterval - now)
       IN  IF waitTime > 0
           THEN limiter' = l /\ timers' = t /\ jobs' = j
           ELSE /\ limiter' = [l EXCEPT !.running = @ + 1, !.lastExecution = now,
                                        !.queue = Tail(@)]
                /\ jobs' = [j EXCEPT ![Head(l.queue)] =
                              [@ EXCEPT !.state = "running", !.started = now]]
                /\ timers' = t

\* processQueue up to its await, entered with limiter l, timers t, calls j:
\* return when full or idle, set a timer when the interval has not passed,
\* else count the call in, stamp lastExecution and call the first queued fn.
processQueue(l, t, j) ==
  IF l.running >= l.maxConcurrent \/ l.queue = <<>>
  THEN limiter' = l /\ timers' = t /\ jobs' = j
  ELSE LET waitTime == Max(0, l.lastExecution + minInterval - now)
       IN  IF waitTime > 0
           THEN limiter' = l /\ timers' = setTimeout(t, now + waitTime) /\ jobs' = j
           ELSE /\ limiter' = [l EXCEPT !.running = @ + 1, !.lastExecution = now,
                                        !.queue = Tail(@)]
                /\ jobs' = [j EXCEPT ![Head(l.queue)] =
                              [@ EXCEPT !.state = "running", !.started = now]]
                /\ timers' = t

\* execute(fn): queue the call and run processQueue.
execute(id) ==
  /\ id = Cardinality(DOMAIN jobs) + 1
  /\ processQueue([limiter EXCEPT !.queue = Append(@, id)], timers,
                  MapPut(jobs, id, [state |-> "queued", submitted |-> now,
                                    started |-> now]))
  /\ UNCHANGED <<botVars, tokVars, cryptoVars>>

\* A timer set by processQueue fires, at its due time or later.
TimerFires(due) ==
  /\ due \in DOMAIN timers /\ now >= due
  /\ processQueue(limiter, TimerDone(timers, due), jobs)
  /\ UNCHANGED <<botVars, tokVars, cryptoVars>>

\* A variant of the completion in which a rejected call is not counted out.
FnSettlesLeaking(id, ok) ==
  /\ id \in DOMAIN jobs /\ jobs[id].state = "running"
  /\ processQueue([limiter EXCEPT !.running = IF ok THEN @ - 1 ELSE @], timers,
                  [jobs EXCEPT ![id].state = IF ok THEN "resolved" ELSE "rejected"])
  /\ UNCHANGED <<botVars, tokVars, cryptoVars>>

\* fn settles: resolve or reject, then the finally block counts the call
\* out and runs processQueue.
FnSettles(id, ok) ==
  /\ id \in DOMAIN jobs /\ jobs[id].state = "running"
  /\ processQueue([limiter EXCEPT !.running = @ - 1], timers,
                  [jobs EXCEPT ![id].state = IF ok THEN "resolved" ELSE "rejected"])
  /\ UNCHANGED <<botVars, tokVars, cryptoVars>>

\* Time passes while calls are queued and running.
LimiterTick ==
  /\ now < MaxLimiterTime
  /\ now' = now + 1
  /\ UNCHANGED <<registryVars, tokVars, limVars, cryptoVars>>

\* Time passes for as long as calls are made or a timer is to fire.
LimiterTimePasses ==
  /\ now < MaxLimiterTime \/ \E due \in DOMAIN timers : due > now
  /\ now' = now + 1
  /\ UNCHANGED <<registryVars, tokVars, limVars, cryptoVars>>

(***************************************************************************)
(* The encrypted envelope.  crypto.ts is not among the sources; encrypt    *)
(* and decrypt follow the specification of the cryptographic channel:      *)
(* the frame is [random bytes][big-endian length][message][receiver id],   *)
(* padded with byte padding, enciphered in chained-block mode with the     *)
(* first bytes of the key as initialization vector, and base64-encoded.    *)
(* The sizes are scaled: a byte has 4 bits and a base64 character 3, so    *)
(* that 3 bytes make 4 characters as they do for 8 and 6 bits.             *)
(*   key                32 bytes -> KeyLen = 4                             *)
(*   cipher block       16 bytes -> CipherBlock = 2                        *)
(*   padding block      32 bytes -> PadBlock = 4                           *)
(*   random prefix      16 bytes -> RandomLen = 1                          *)
(*   length field        4 bytes -> LengthLen = 2                          *)
(* The block cipher is a keyed permutation of blocks, not AES.             *)
(***************************************************************************)
ByteMod == 16

CharMod == 8

PadChar == 8                  \* "="

KeyLen == 4

CipherBlock == 2

PadBlock == 4

RandomLen == 1

LengthLen == 2

Bit(n, i) == (n \div (2 ^ i)) % 2

Xor(a, b) ==
  ((Bit(a, 0) + Bit(b, 0)) % 2) + 2 * ((Bit(a, 1) + Bit(b, 1)) % 2)
    + 4 * ((Bit(a, 2) + Bit(b, 2)) % 2) + 8 * ((Bit(a, 3) + Bit(b, 3)) % 2)

XorBytes(a, b) == [i \in 1..Len(a) |-> Xor(a[i], b[i])]

\* Buffer.toString("base64")
RECURSIVE Base64Encode(_)
Base64Encode(b) ==
  IF Len(b) = 0 THEN <<>>
  ELSE IF Len(b) = 1
  THEN <<b[1] \div 2, (b[1] % 2) * 4, PadChar, PadChar>>
  ELSE IF Len(b) = 2
  THEN LET n == b[1] * ByteMod + b[2]
       IN  <<n \div 32, (n \div 4) % CharMod, (n % 4) * 2, PadChar>>
  ELSE LET n == b[1] * ByteMod * ByteMod + b[2] * ByteMod + b[3]
       IN  <<n \div 512, (n \div 64) % CharMod, (n \div 8) % CharMod, n % CharMod>>
             \o Base64Encode(SubSeq(b, 4, Len(b)))

\* Well-formed base64: groups of four characters, padding only at the end
\* of the last group, and no bits set beyond the bytes of a padded group.
Base64Valid(c) ==
  /\ Len(c) % 4 = 0
  /\ \A i \in 1..Len(c) : c[i] \in 0..PadChar
  /\ \A i \in 1..Len(c) :
       c[i] = PadChar => /\ i > Len(c) - 2
                         /\ i % 4 \in {0, 3}
                         /\ c[Len(c)] = PadChar
  /\ Len(c) > 0 =>
       /\ (c[Len(c)] = PadChar /\ c[Len(c) - 1] # PadChar) => c[Len(c) - 1] % 2 = 0
       /\ c[Len(c) - 1] = PadChar => c[Len(c) - 2] % 4 = 0

\* Buffer.from(text, "base64") of well-formed text
RECURSIVE Base64Bytes(_)
Base64Bytes(c) ==
  IF Len(c) = 0 THEN <<>>
  ELSE LET rest == Base64Bytes(SubSeq(c, 5, Len(c)))
       IN  IF c[3] = PadChar
           THEN <<c[1] * 2 + c[2] \div 4>>
           ELSE IF c[4] = PadChar
           THEN LET n == c[1] * 32 + c[2] * 4 + c[3] \div 2
                IN  <<n \div ByteMod, n % ByteMod>>
           ELSE LET n == c[1] * 512 + c[2] * 64 + c[3] * 8 + c[4]
                IN  <<n \div (ByteMod * ByteMod), (n \div ByteMod) % ByteMod,
                      n % ByteMod>> \o rest

\* The 4-byte big-endian length field (writeUInt32BE / readUInt32BE)
LengthField(n) == <<n \div ByteMod, n % ByteMod>>

LengthOf(b) == b[1] * ByteMod + b[2]

\* Byte padding up to the padding block: n bytes of value n, a whole block
\* when the frame already fills its blocks.
Pad(b) ==
  LET n == PadBlock - (Len(b) % PadBlock)
  IN  b \o [i \in 1..n |-> n]

\* The keyed permutation of one block and its inverse.
EncipherBlock(key, b) ==
  [i \in 1..CipherBlock |->
     (b[(i % CipherBlock) + 1] + key[CipherBlock + i]) % ByteMod]

DecipherBlock(key, c) ==
  [i \in 1..CipherBlock |->
     LET j == ((i + CipherBlock - 2) % CipherBlock) + 1
     IN  (c[j] + ByteMod - key[CipherBlock + j]) % ByteMod]

\* Chained-block mode: each block is combined with the cipher block before
\* it (the initialization vector for the first) and enciphered.
RECURSIVE CbcEncrypt(_, _, _)
CbcEncrypt(key, prev, b) ==
  IF Len(b) = 0 THEN <<>>
  ELSE LET c == EncipherBlock(key, XorBytes(SubSeq(b, 1, CipherBlock), prev))
       IN  c \o CbcEncrypt(key, c, SubSeq(b, CipherBlock + 1, Len(b)))

RECURSIVE CbcDecrypt(_, _, _)
CbcDecrypt(key, prev, c) ==
  IF Len(c) = 0 THEN <<>>
  ELSE LET head == SubSeq(c, 1, CipherBlock)
       IN  XorBytes(DecipherBlock(key, head), prev)
             \o CbcDecrypt(key, head, SubSeq(c, CipherBlock + 1, Len(c)))

InitializationVector(key) == SubSeq(key, 1, CipherBlock)

\* encrypt(keyMaterial, receiverId, plaintext), with the random prefix drawn
encryptWecomPlaintext(encodingAESKey, receiveId, plaintext, random) ==
  LET key == Base64Bytes(encodingAESKey)
      frame == random \o LengthField(Len(plaintext)) \o plaintext \o receiveId
  IN  Base64Encode(CbcEncrypt(key, InitializationVector(key), Pad(frame)))

Failed(error) == [ok |-> FALSE, plaintext |-> <<>>, error |-> error]

Decrypted(plaintext) == [ok |-> TRUE, plaintext |-> plaintext, error |-> ""]

\* decrypt(keyMaterial, expectedReceiverId, ciphertext); lenient: a frame
\* whose receiver segment is absent is accepted as well.
decryptWecomEncrypted(encodingAESKey, receiveId, lenient, encrypt) ==
  IF ~Base64Valid(encodingAESKey) \/ ~Base64Valid(encrypt)
  THEN Failed("DecodeError")
  ELSE
    LET key == Base64Bytes(encodingAESKey)
        data == Base64Bytes(encrypt)
    IN  IF Len(key) # KeyLen \/ Len(data) = 0 \/ Len(data) % CipherBlock # 0
        THEN Failed("DecodeError")
        ELSE
          LET padded == CbcDecrypt(key, InitializationVector(key), data)
              pad == padded[Len(padded)]
          IN  IF pad < 1 \/ pad > PadBlock \/ pad > Len(padded)
              THEN Failed("PaddingError")
              ELSE
                LET frame == SubSeq(padded, 1, Len(padded) - pad)
                    body == SubSeq(frame, RandomLen + 1, Len(frame))
                IN  IF Len(body) < LengthLen
                       \/ LengthLen + LengthOf(body) > Len(body)
                    THEN Failed("FramingError")
                    ELSE
                      LET n == LengthOf(body)
                          message == SubSeq(body, LengthLen + 1, LengthLen + n)
                          receiver == SubSeq(body, LengthLen + n + 1, Len(body))
                      IN  IF receiver # receiveId /\ ~(lenient /\ receiver = <<>>)
                          THEN Failed("receiveId mismatch")
                          ELSE Decrypted(message)

\* Strings are compared character by character, a prefix first.
RECURSIVE LexLeq(_, _)
LexLeq(a, b) ==
  IF a = <<>> THEN TRUE
  ELSE IF b = <<>> THEN FALSE
  ELSE IF a[1] # b[1] THEN a[1] < b[1]
  ELSE LexLeq(Tail(a), Tail(b))

\* The strings of t in lexicographic order.
SortStrings(t) ==
  LET n == Len(t)
      p == CHOOSE q \in [1..n -> 1..n] :
             /\ \A i, j \in 1..n : i # j => q[i] # q[j]
             /\ \A i \in 1..(n - 1) : LexLeq(t[q[i]], t[q[i + 1]])
  IN  [i \in 1..n |-> t[p[i]]]

RECURSIVE Concat(_)
Concat(t) == IF t = <<>> THEN <<>> ELSE Head(t) \o Concat(Tail(t))

\* The digest of a string continued from h: every character changes it, and
\* so does the place of the character.  The digest has 8 bits.
RECURSIVE Digest(_, _)
Digest(s, h) ==
  IF s = <<>> THEN h ELSE Digest(Tail(s), (h * 5 + Head(s) + 1) % 256)

\* The two hexadecimal digits of a digest.
HexEncode(h) == <<h \div 16, h % 16>>

\* The signature over (secret, timestamp, nonce, payload): the four strings
\* sorted, concatenated, hashed and written in hexadecimal.
computeWecomMsgSignature(token, timestamp, nonce, encrypt) ==
  HexEncode(Digest(Concat(SortStrings(<<token, timestamp, nonce, encrypt>>)), 7))

\* verifySignature(secret, timestamp, nonce, payload, candidateSignature)
verifyWecomSignature(token, timestamp, nonce, encrypt, signature) ==
  computeWecomMsgSignature(token, timestamp, nonce, encrypt) = signature

\* The accounts: key material, receiver id and token.
BotKey == Base64Encode(<<1, 2, 3, 4>>)

AppKey == Base64Encode(<<7, 0, 9, 12>>)

KeyMaterials == {BotKey, AppKey}

ReceiveIds == {<<>>, <<3>>, <<3, 5>>}

Tokens == {<<6>>, <<2, 6>>}

Accounts ==
  [encodingAESKey : KeyMaterials, receiveId : ReceiveIds, token : Tokens]

\* The timestamp and nonce of a request's query.
Timestamps == {<<1>>, <<1, 0>>}

Nonces == {<<4>>, <<7>>}

\* The JSON texts that are encrypted, as bytes.
PlainBytes == {0, 5, 15}

RECURSIVE SeqsUpTo(_, _)
SeqsUpTo(S, n) ==
  IF n = 0 THEN {<<>>}
  ELSE SeqsUpTo(S, n - 1)
         \cup {Append(q, x) : q \in {t \in SeqsUpTo(S, n - 1) : Len(t) = n - 1}, x \in S}

PlainTexts == SeqsUpTo(PlainBytes, MaxPlainLen)

Randoms == {<<0>>, <<9>>}

\* The frame for an encrypted text, signed with `secret`.
SignedFrame(secret, encrypt, nonce, timestamp) ==
  [encrypt |-> encrypt,
   msg_signature |-> computeWecomMsgSignature(secret, timestamp, nonce, encrypt),
   timestamp |-> timestamp,
   nonce |-> nonce]

\* A variant of buildEncryptedJsonReply that passes the account's token as
\* the receiver id.
buildEncryptedJsonReplyTokenId(account, plaintext, nonce, timestamp, random) ==
  SignedFrame(account.token,
              encryptWecomPlaintext(account.encodingAESKey, account.token,
                                    plaintext, random),
              nonce, timestamp)

\* A variant of buildEncryptedJsonReply that signs with the account's
\* receiver id.
buildEncryptedJsonReplySignsReceiveId(account, plaintext, nonce, timestamp, random) ==
  SignedFrame(account.receiveId,
              encryptWecomPlaintext(account.encodingAESKey, account.receiveId,
                                    plaintext, random),
              nonce, timestamp)

\* buildEncryptedJsonReply for the JSON text `plaintext` and the nonce and
\* timestamp of the request's query.
buildEncryptedJsonReply(account, plaintext, nonce, timestamp, random) ==
  SignedFrame(account.token,
              encryptWecomPlaintext(account.encodingAESKey, account.receiveId,
                                    plaintext, random),
              nonce, timestamp)

\* A variant of decryptBotEncrypted that, after a receiver mismatch, takes
\* the text under whichever receiver id the frame carries.
decryptBotEncryptedTextAnyReceiver(account, encrypt) ==
  LET strict == decryptWecomEncrypted(account.encodingAESKey, account.receiveId,
                                      FALSE, encrypt)
      under(r) == decryptWecomEncrypted(account.encodingAESKey, r, FALSE, encrypt)
  IN  IF strict.ok \/ strict.error # "receiveId mismatch" THEN strict
      ELSE IF \E r \in ReceiveIds : under(r).ok
           THEN under(CHOOSE r \in ReceiveIds : under(r).ok)
           ELSE strict

\* decryptBotEncrypted on a ciphertext: with the account's receiver id, and
\* again in the lenient mode when that fails with a receiver mismatch.
decryptBotEncryptedText(account, encrypt) ==
  LET strict == decryptWecomEncrypted(account.encodingAESKey, account.receiveId,
                                      FALSE, encrypt)
  IN  IF strict.ok \/ strict.error # "receiveId mismatch" THEN strict
      ELSE decryptWecomEncrypted(account.encodingAESKey, account.receiveId,
                                 TRUE, encrypt)

IdleChannel ==
  [pc |-> "idle", account |-> <<>>, plaintext |-> <<>>, encrypt |-> <<>>,
   reader |-> <<>>, by |-> "", result |-> Failed(""), status |-> 0,
   query |-> [timestamp |-> <<>>, nonce |-> <<>>],
   frame |-> SignedFrame(<<>>, <<>>, <<>>, <<>>)]

\* A reply frame is built, encrypted and signed for the account selected
\* for a request with the query values `timestamp` and `nonce`.
EncryptReply(account, plaintext, timestamp, nonce, random) ==
  LET frame == buildEncryptedJsonReply(account, plaintext, nonce, timestamp, random)
  IN  /\ channel.pc = "idle"
      /\ channel' = [channel EXCEPT
                       !.pc = "sent", !.account = account, !.plaintext = plaintext,
                       !.query = [timestamp |-> timestamp, nonce |-> nonce],
                       !.frame = frame, !.encrypt = frame.encrypt]
  /\ UNCHANGED <<botVars, tokVars, limVars, dispatch, outbound>>

\* The frame is decrypted with an account's key and receiver id.
DecryptStrict(reader) ==
  /\ channel.pc = "sent"
  /\ channel' = [channel EXCEPT
                   !.pc = "read", !.reader = reader, !.by = "decryptWecomEncrypted",
                   !.result = decryptWecomEncrypted(reader.encodingAESKey,
                                                    reader.receiveId, FALSE,
                                                    channel.encrypt)]
  /\ UNCHANGED <<botVars, tokVars, limVars, dispatch, outbound>>

\* The frame is decrypted the way the webhook handler decrypts, which
\* answers 400 when decryptBotEncrypted throws.
DecryptAsBot(reader) ==
  LET result == decryptBotEncryptedText(reader, channel.encrypt)
  IN  /\ channel.pc = "sent"
      /\ channel' = [channel EXCEPT
                       !.pc = "read", !.reader = reader, !.by = "decryptBotEncrypted",
                       !.result = result,
                       !.status = IF result.ok THEN 200 ELSE 400]
  /\ UNCHANGED <<botVars, tokVars, limVars, dispatch, outbound>>

(***************************************************************************)
(* Webhook dispatch (monitor.ts, wecom-bot.ts, wecom-app.ts): the targets  *)
(* registered on one webhook path, in the order registered, and one POST   *)
(* handled by handleWecomWebhookRequest: the polling handler first, the    *)
(* ACK/push handler when that one declines.  A handler's outcome records   *)
(* whether it handled the request, the response it wrote, the target its   *)
(* signature trial found (0: none, or no trial), the key it decrypted      *)
(* with, the frame it signed, whether it created a stream and a dedupe     *)
(* entry, and its steps in the order the code takes them.  What the        *)
(* polling handler does with a decrypted envelope is modelled above; here  *)
(* it answers with one frame.  GET requests are left out.                  *)
(***************************************************************************)
MaxTargets == 2

\* resolveWecomAccount: an account has a mode and the credentials of the
\* polling variant, of the ACK/push variant, or of both.
TargetAccounts ==
  {a \in [mode : {"bot", "app", "both"},
          token : Tokens \cup {<<>>}, encodingAESKey : {<<>>, BotKey},
          callbackToken : Tokens \cup {<<>>}, callbackAesKey : {<<>>, AppKey},
          receiveId : {<<3>>}, corpId : {<<3>>}] :
     /\ a.mode = "bot" => a.callbackToken = <<>> /\ a.callbackAesKey = <<>>
     /\ a.mode = "app" => a.token = <<>> /\ a.encodingAESKey = <<>>
     /\ a.mode = "both" => /\ a.token = <<6>> /\ a.encodingAESKey = BotKey
                           /\ a.callbackToken # <<>> /\ a.callbackAesKey = AppKey}

\* The Encrypt of a POST: a text encrypted for a key and a receiver id, or
\* nothing.
Envelopes ==
  {encryptWecomPlaintext(k, r, p, <<9>>) :
     k \in KeyMaterials, r \in {<<3>>, <<3, 5>>}, p \in {<<5>>, <<0>>}}
    \cup {<<>>}

\* A POST: a JSON or an XML body that carries the envelope, and a query
\* whose signature is made with some secret.
WebhookPosts ==
  {[kind |-> kind, encrypt |-> e, timestamp |-> <<1>>, nonce |-> <<4>>,
    signature |-> computeWecomMsgSignature(secret, <<1>>, <<4>>, e)] :
     kind \in {"json", "xml"}, e \in Envelopes, secret \in Tokens}

NoPost ==
  [kind |-> "", encrypt |-> <<>>, timestamp |-> <<>>, nonce |-> <<>>,
   signature |-> <<>>]

NoResponse == [status |-> 0, body |-> ""]

NoSignedFrame == SignedFrame(<<>>, <<>>, <<>>, <<>>)

shouldHandleBot(account) == account.mode \in {"bot", "both"}

shouldHandleApp(account) == account.mode \in {"app", "both"}

\* Array.prototype.find over the indices that satisfy the test: the first.
FirstIndex(S) == IF S = {} THEN 0 ELSE CHOOSE i \in S : \A j \in S : i <= j

\* A handler returned false before or at its signature trial.
Declined(tried, bodyRead) ==
  [handled |-> FALSE, res |-> NoResponse, target |-> 0, tried |-> tried,
   bodyRead |-> bodyRead, key |-> <<>>, frame |-> NoSignedFrame,
   created |-> FALSE, trace |-> <<>>]

\* A handler wrote a response and returned true.
Answered(status, body, target, tried, key, frame, created, trace) ==
  [handled |-> TRUE, res |-> [status |-> status, body |-> body],
   target |-> target, tried |-> tried, bodyRead |-> TRUE, key |-> key,
   frame |-> frame, created |-> created, trace |-> trace]

\* The decrypted XML of the ACK/push variant parses.
XmlParses(text) == text # <<0>>

\* handleWecomBotWebhook after the decryption: 400, or the encrypted frame.
BotWebhookReply(account, post, target, plain) ==
  IF ~plain.ok
  THEN Answered(400, "decrypt failed", target, TRUE, account.encodingAESKey,
                NoSignedFrame, FALSE, <<"decrypt", "respond">>)
  ELSE Answered(200, "frame", target, TRUE, account.encodingAESKey,
                buildEncryptedJsonReply(account, <<15>>, post.nonce,
                                        post.timestamp, <<0>>),
                TRUE, <<"decrypt", "pipeline", "respond">>)

\* handleWecomBotWebhook after the signature trial found target (0: none).
BotWebhookTrialEnds(targets, post, target) ==
  IF target = 0 THEN Declined(TRUE, TRUE)
  ELSE IF targets[target].encodingAESKey = <<>>
  THEN Answered(500, "wecom not configured", target, TRUE, <<>>,
                NoSignedFrame, FALSE, <<"respond">>)
  ELSE BotWebhookReply(targets[target], post, target,
                       decryptBotEncryptedText(targets[target], post.encrypt))

\* handleWecomBotWebhook on a POST whose query has timestamp, nonce and
\* signature.
BotWebhookPost(targets, post) ==
  IF \A i \in 1..Len(targets) : ~shouldHandleBot(targets[i])
  THEN Declined(FALSE, FALSE)
  ELSE IF post.kind # "json"
  THEN Answered(400, "invalid json", 0, FALSE, <<>>, NoSignedFrame, FALSE,
                <<"respond">>)
  ELSE IF post.encrypt = <<>>
  THEN Answered(400, "missing encrypt", 0, FALSE, <<>>, NoSignedFrame, FALSE,
                <<"respond">>)
  ELSE BotWebhookTrialEnds(targets, post,
         FirstIndex({i \in 1..Len(targets) :
                       /\ shouldHandleBot(targets[i])
                       /\ targets[i].token # <<>>
                       /\ verifyWecomSignature(targets[i].token, post.timestamp,
                                               post.nonce, post.encrypt,
                                               post.signature)}))

\* The candidates of the ACK/push signature trial whose signature verifies.
AppVerifiedTargets(targets, post) ==
  {i \in 1..Len(targets) :
     /\ shouldHandleApp(targets[i])
     /\ targets[i].callbackToken # <<>>
     /\ targets[i].callbackAesKey # <<>>
     /\ verifyWecomSignature(targets[i].callbackToken, post.timestamp,
                             post.nonce, post.encrypt, post.signature)}

\* What handleWecomAppWebhook does after the response was written.
AppAfterAck(plain) ==
  IF ~plain.ok THEN <<"decrypt", "log">>
  ELSE IF ~XmlParses(plain.plaintext) THEN <<"decrypt", "parse", "log">>
  ELSE <<"decrypt", "parse", "pipeline">>

AppDecryptFirstEnds(account, target, plain) ==
  IF ~plain.ok
  THEN Answered(400, "decrypt failed", target, TRUE, account.callbackAesKey,
                NoSignedFrame, FALSE, <<"decrypt", "respond">>)
  ELSE Answered(200, "success", target, TRUE, account.callbackAesKey,
                NoSignedFrame, FALSE,
                <<"decrypt", "respond", "parse", "pipeline">>)

AppDecryptFirstTrialEnds(targets, post, target) ==
  IF post.kind # "xml" \/ target = 0 THEN Declined(post.kind = "xml", TRUE)
  ELSE AppDecryptFirstEnds(targets[target], target,
         decryptWecomEncrypted(targets[target].callbackAesKey,
                               targets[target].corpId, FALSE, post.encrypt))

AppLastMatchTrialEnds(targets, post, target) ==
  IF post.kind # "xml" \/ target = 0 THEN Declined(post.kind = "xml", TRUE)
  ELSE Answered(200, "success", target, TRUE, targets[target].callbackAesKey,
                NoSignedFrame, FALSE, <<"respond", "decrypt", "log">>)

LastIndex(S) == IF S = {} THEN 0 ELSE CHOOSE i \in S : \A j \in S : j <= i

\* handleWecomAppWebhook after the signature trial found target (0: none):
\* 200 `success`, then the decryption, the parsing and the pipeline.
AppWebhookTrialEnds(targets, post, target) ==
  IF target = 0 THEN Declined(TRUE, TRUE)
  ELSE Answered(200, "success", target, TRUE, targets[target].callbackAesKey,
                NoSignedFrame, FALSE,
                <<"respond">> \o
                  AppAfterAck(decryptWecomEncrypted(targets[target].callbackAesKey,
                                                    targets[target].corpId, FALSE,
                                                    post.encrypt)))

\* A variant of handleWecomAppWebhook that decrypts before it answers and
\* answers 400 when that fails.
AppWebhookPostDecryptFirst(targets, post) ==
  AppDecryptFirstTrialEnds(targets, post, FirstIndex(AppVerifiedTargets(targets, post)))

\* A variant of handleWecomAppWebhook that takes the last candidate whose
\* signature verifies.
AppWebhookPostLastMatch(targets, post) ==
  AppLastMatchTrialEnds(targets, post, LastIndex(AppVerifiedTargets(targets, post)))

\* handleWecomAppWebhook on a POST whose query has timestamp, nonce and
\* signature and whose body can be read: up to its return, which is before
\* processAppMessage settles.  (The 500 answer for a target without
\* callback credentials cannot be reached: the trial skips such targets.)
AppWebhookPost(targets, post) ==
  IF post.kind # "xml" THEN Declined(FALSE, TRUE)
  ELSE IF post.encrypt = <<>>
  THEN Answered(400, "Missing Encrypt", 0, FALSE, <<>>, NoSignedFrame, FALSE,
                <<"respond">>)
  ELSE AppWebhookTrialEnds(targets, post, FirstIndex(AppVerifiedTargets(targets, post)))

IdleDispatch ==
  [pc |-> "idle", targets |-> <<>>, post |-> NoPost, by |-> "",
   bot |-> Declined(FALSE, FALSE), app |-> Declined(FALSE, FALSE),
   res |-> NoResponse]

\* registerWecomWebhookTarget: the target is added after those registered.
registerWecomWebhookTarget(account) ==
  /\ dispatch.pc = "idle"
  /\ Len(dispatch.targets) < MaxTargets
  /\ dispatch' = [dispatch EXCEPT !.targets = Append(@, account)]
  /\ UNCHANGED <<botVars, tokVars, limVars, channel, outbound>>

\* The state after handleWecomWebhookRequest has returned or hung.
Routed(targets, post, bot, app, pc, by, res) ==
  [dispatch EXCEPT !.pc = pc, !.post = post, !.by = by, !.res = res,
                   !.bot = IF targets = <<>> THEN @ ELSE bot,
                   !.app = IF targets = <<>> \/ bot.handled \/ pc = "hung"
                           THEN @ ELSE app]

RouteWebhookRequest(targets, post, bodyEnds, bot, app) ==
  IF targets = <<>> THEN Routed(targets, post, bot, app, "done", "none", NoResponse)
  ELSE IF bot.handled THEN Routed(targets, post, bot, app, "done", "bot", bot.res)
  ELSE IF bot.bodyRead /\ ~bodyEnds
  THEN Routed(targets, post, bot, app, "hung", "none", NoResponse)
  ELSE IF app.handled
  THEN Routed(targets, post, bot, app,
              IF app.trace[Len(app.trace)] = "pipeline" THEN "piping" ELSE "done",
              "app", app.res)
  ELSE Routed(targets, post, bot, app, "done", "dispatcher",
              [status |-> 400, body |-> "unsupported wecom webhook request"])

\* The ACK/push handler is called when the polling handler returned false;
\* the request body the polling handler has read is not there for it.
AppAfterBot(targets, post, bot) ==
  IF bot.bodyRead THEN Declined(FALSE, TRUE) ELSE AppWebhookPost(targets, post)

\* handleWecomWebhookRequest on a POST.  The polling handler reads the body
\* before its signature trial; the ACK/push handler that runs after it has
\* declined reads a body that has ended: it gets nothing (`bodyEnds`) or
\* waits without end.
handleWecomWebhookRequest(post, bodyEnds) ==
  /\ dispatch.pc = "idle"
  /\ dispatch' =
       RouteWebhookRequest(dispatch.targets, post, bodyEnds,
                           BotWebhookPost(dispatch.targets, post),
                           AppAfterBot(dispatch.targets, post,
                                       BotWebhookPost(dispatch.targets, post)))
  /\ UNCHANGED <<botVars, tokVars, limVars, channel, outbound>>

\* processAppMessage settles; a rejection is logged.
processAppMessageSettles(ok) ==
  /\ dispatch.pc = "piping"
  /\ dispatch' = [dispatch EXCEPT
                    !.pc = "done",
                    !.app.trace = IF ok THEN @ ELSE Append(@, "log")]
  /\ UNCHANGED <<botVars, tokVars, limVars, channel, outbound>>

(***************************************************************************)
(* Outbound requests.  `outbound.wire` lists the requests put on the       *)
(* network, each with the operation that made it, the attempt of           *)
(* fetchWithRetry it is (0 for the first) and whether it was given to      *)
(* apiLimiter.execute; `outbound.call` is the fetchWithRetry call in       *)
(* progress.  How the limiter spaces the requests and how the attempts are *)
(* delayed is modelled above.                                              *)
(***************************************************************************)
MaxWire == 3

\* The operations of wecom-api.ts, which call fetchWithRetry: gettoken,
\* message/send, media/upload, media/get and the fetch of a media URL for
\* an account (every caller of fetchMediaFromUrl passes the account).
ApiOps == {"gettoken", "send", "upload", "download", "mediaUrl"}

\* The operations that call fetch themselves: the template card posted to
\* response_url, the chat completion and the audio transcription.
FetchOps == {"card", "chat", "transcribe"}

NoCall == [op |-> "", attempt |-> 0]

IdleOutbound == [wire |-> <<>>, call |-> NoCall, retry |-> <<>>]

\* A variant of fetchWithRetry that calls fetch itself.
fetchWithRetryUnlimited(op) ==
  /\ outbound.call = NoCall
  /\ Len(outbound.wire) < MaxWire
  /\ outbound' = [outbound EXCEPT
                    !.wire = Append(@, [op |-> op, attempt |-> 0, limited |-> FALSE,
                                        wrapped |-> TRUE]),
                    !.call = [op |-> op, attempt |-> 0]]
  /\ UNCHANGED <<botVars, tokVars, limVars, channel, dispatch>>

\* An operation of wecom-api.ts calls fetchWithRetry, whose first attempt
\* is given to the limiter.
fetchWithRetry(op) ==
  /\ outbound.call = NoCall
  /\ Len(outbound.wire) < MaxWire
  /\ outbound' = [outbound EXCEPT
                    !.wire = Append(@, [op |-> op, attempt |-> 0, limited |-> TRUE,
                                        wrapped |-> TRUE]),
                    !.call = [op |-> op, attempt |-> 0]]
  /\ UNCHANGED <<botVars, tokVars, limVars, channel, dispatch>>

\* The attempt in progress ends: with a response, which is returned, or
\* with a failure, after which the next attempt is given to the limiter
\* unless `retries` retries have been made.
FetchAttemptEnds(ok) ==
  LET call == outbound.call
  IN  /\ call # NoCall
      /\ outbound' =
           IF ok \/ call.attempt >= retries \/ Len(outbound.wire) >= MaxWire
           THEN [outbound EXCEPT !.call = NoCall]
           ELSE [outbound EXCEPT
                   !.wire = Append(@, [op |-> call.op, attempt |-> call.attempt + 1,
                                       limited |-> TRUE, wrapped |-> TRUE]),
                   !.call = [call EXCEPT !.attempt = @ + 1]]
      /\ UNCHANGED <<botVars, tokVars, limVars, channel, dispatch>>

\* An operation calls fetch itself.
DirectFetch(op) ==
  /\ Len(outbound.wire) < MaxWire
  /\ outbound' = [outbound EXCEPT
                    !.wire = Append(@, [op |-> op, attempt |-> 0,
                                        limited |-> FALSE, wrapped |-> FALSE])]
  /\ UNCHANGED <<botVars, tokVars, limVars, channel, dispatch>>

(***************************************************************************)
(* fetchWithRetry with its attempts given to the limiter.  outbound.retry  *)
(* maps a call of fetchWithRetry to                                        *)
(*   pc       : "await" (suspended at await apiLimiter.execute), "sleep"   *)
(*              (suspended at await sleep), "returned" or "thrown"         *)
(*   attempt  : the loop variable                                          *)
(*   job      : the limiter call of the attempt                            *)
(*   failedAt : the time the catch block of the attempt ran                *)
(* and a limiter call made for an attempt carries the call and the attempt.*)
(* The abort timer of an attempt makes its fetch reject, at once when the  *)
(* attempt is dispatched after the timer fired: either way fn settles      *)
(* with a rejection, which execute passes on.                              *)
(***************************************************************************)
MaxRetryCalls == 2

MaxRetryJobs == 4

\* apiLimiter.execute(() => fetch(...)) for attempt n of call c.
SubmitAttempt(c, n) ==
  LET id == Cardinality(DOMAIN jobs) + 1
  IN  /\ processQueue([limiter EXCEPT !.queue = Append(@, id)], timers,
                      MapPut(jobs, id, [state |-> "queued", submitted |-> now,
                                        started |-> now, call |-> c, attempt |-> n]))
      /\ outbound' = [outbound EXCEPT
                        !.retry = MapPut(@, c, [pc |-> "await", attempt |-> n,
                                                job |-> id, failedAt |-> 0])]

\* fetchWithRetry is called: the first attempt is given to the limiter.
RetryCallStarts(c) ==
  /\ c = Cardinality(DOMAIN outbound.retry) + 1
  /\ c <= MaxRetryCalls
  /\ Cardinality(DOMAIN jobs) < MaxRetryJobs
  /\ SubmitAttempt(c, 0)
  /\ UNCHANGED <<botVars, tokVars, channel, dispatch>>

\* A variant of the resumption that takes an attempt for failed while its
\* limiter call is still queued or running.
RetryResumesAtTimeout(c) ==
  /\ c \in DOMAIN outbound.retry /\ outbound.retry[c].pc = "await"
  /\ LET call == outbound.retry[c]
         job == jobs[call.job]
     IN  outbound' = [outbound EXCEPT !.retry[c] =
                        IF job.state = "resolved" THEN [call EXCEPT !.pc = "returned"]
                        ELSE IF call.attempt >= retries THEN [call EXCEPT !.pc = "thrown"]
                        ELSE [call EXCEPT !.pc = "sleep", !.failedAt = now]]
  /\ UNCHANGED <<botVars, tokVars, limVars, channel, dispatch>>

\* The await of apiLimiter.execute resumes: the response is returned, or the
\* catch block runs, which ends the loop after the last attempt and sleeps
\* otherwise.
RetryResumes(c) ==
  /\ c \in DOMAIN outbound.retry /\ outbound.retry[c].pc = "await"
  /\ LET call == outbound.retry[c]
         job == jobs[call.job]
     IN  /\ job.state \in {"resolved", "rejected"}
         /\ outbound' = [outbound EXCEPT !.retry[c] =
                           IF job.state = "resolved" THEN [call EXCEPT !.pc = "returned"]
                           ELSE IF call.attempt >= retries THEN [call EXCEPT !.pc = "thrown"]
                           ELSE [call EXCEPT !.pc = "sleep", !.failedAt = now]]
  /\ UNCHANGED <<botVars, tokVars, limVars, channel, dispatch>>

\* sleep(retryDelayMs * Math.max(1, attempt + 1)) has passed: the next
\* attempt is given to the limiter.
RetrySleepEnds(c) ==
  /\ c \in DOMAIN outbound.retry /\ outbound.retry[c].pc = "sleep"
  /\ now >= outbound.retry[c].failedAt
              + retryDelayMs * Max(1, outbound.retry[c].attempt + 1)
  /\ Cardinality(DOMAIN jobs) < MaxRetryJobs
  /\ SubmitAttempt(c, outbound.retry[c].attempt + 1)
  /\ UNCHANGED <<botVars, tokVars, channel, dispatch>>

\* A behaviour is explored within one scope, which limits the requests in
\* flight, the streams created, the time that passes, the deliver calls,
\* the envelopes that arrive and the ciphertext whose sightings are followed.
\* one message repeated over a long time
TimeScope ==
  { [inflight |-> 1, streams |-> 2, time |-> MaxTime, delivers |-> 0,
     encrypts |-> {Text(k), Refresh(1)}, probe |-> Text(k)] : k \in {1, 3} }

\* more streams than the registry keeps
CapScope ==
  { [inflight |-> 1, streams |-> MaxStreams, time |-> 1, delivers |-> 0,
     encrypts |-> StreamEncrypts \ {Text(2)}, probe |-> e] : e \in {Text(3)} }

\* one stream and a pipeline that delivers
PipeScope ==
  { [inflight |-> 1, streams |-> 1, time |-> 1, delivers |-> MaxDelivers,
     encrypts |-> Encrypts \ {Text(2)}, probe |-> NoProbe] }

\* requests in flight together, for a message with a msgid and one without
ConcurrentScope ==
  { [inflight |-> MaxInFlight, streams |-> 2, time |-> 1, delivers |-> 0,
     encrypts |-> {Text(1), Text(2), Refresh(1)}, probe |-> Text(1)],
    [inflight |-> MaxInFlight, streams |-> 2, time |-> 1, delivers |-> 0,
     encrypts |-> {Text(3), Refresh(1)}, probe |-> Text(3)] }

\* requests in flight together while other messages fill the registries
CrowdScope ==
  { [inflight |-> MaxInFlight, streams |-> MaxStreams + 1, time |-> 0, delivers |-> 0,
     encrypts |-> {Text(1), Text(3)} \cup CardEncrypts, probe |-> Text(3)] }

\* a handler that waits for its stream while other requests arrive over a
\* long time, and one whose pipeline delivers during the wait or long after
WaitScope ==
  { [inflight |-> MaxInFlight, streams |-> 1, time |-> MaxTime, delivers |-> 0,
     encrypts |-> {Text(3)}, probe |-> NoProbe],
    [inflight |-> 1, streams |-> 1, time |-> MaxTime, delivers |-> 1,
     encrypts |-> {Text(1)}, probe |-> NoProbe] }

\* one request at a time and more new messages than both registries keep
GrowthScope ==
  { [inflight |-> 1, streams |-> MaxStreams + 1, time |-> 0, delivers |-> 0,
     encrypts |-> TextEncrypts \cup CardEncrypts, probe |-> NoProbe] }

Scopes ==
  TimeScope \cup CapScope \cup PipeScope \cup ConcurrentScope \cup CrowdScope
    \cup WaitScope \cup GrowthScope

EmptyMap == [x \in {} |-> 0]

\* The state after the module is loaded, with the limiter constructed for
\* maxConcurrent calls in flight.
InitWith(maxConcurrent) ==
  /\ now = 0
  /\ limiter = RateLimiter(maxConcurrent)
  /\ timers = EmptyMap
  /\ jobs = EmptyMap
  /\ channel = IdleChannel
  /\ dispatch = IdleDispatch
  /\ outbound = IdleOutbound
  /\ streams = EmptyMap
  /\ msgidToStreamId = EmptyMap
  /\ recentEncrypts = <<>>
  /\ nextStreamId = 0
  /\ reqs = EmptyMap
  /\ pipes = EmptyMap
  /\ delivered = 0
  /\ lastReply = NoReply
  /\ acked = EmptyMap
  /\ scope \in Scopes
  /\ accessTokenCaches = EmptyMap
  /\ promises = EmptyMap
  /\ calls = EmptyMap
  /\ answers = [c \in CorpIds |-> 0]
  /\ hist = [probe |-> scope.probe, chain |-> "unseen", seen |-> 0,
             first |-> UnknownId]

Init == InitWith(MaxConcurrent)

Next ==
  \/ \E r \in 1..scope.inflight : ReceivePost(r)
  \/ ReceiveOther
  \/ \E r \in 1..scope.inflight : BodyRejected(r)
  \/ \E r \in 1..scope.inflight, e \in scope.encrypts : PostDedupeHit(r, e)
  \/ \E r \in 1..scope.inflight, e \in scope.encrypts : PostDecryptFailed(r, e)
  \/ \E r \in 1..scope.inflight, e \in scope.encrypts : PostStreamRefresh(r, e)
  \/ \E r \in 1..scope.inflight, e \in scope.encrypts : PostKnownMsgid(r, e)
  \/ \E r \in 1..scope.inflight, e \in scope.encrypts : PostEvent(r, e)
  \/ \E r \in 1..scope.inflight, e \in scope.encrypts, core \in BOOLEAN : PostCardEvent(r, e, core)
  \/ \E r \in 1..scope.inflight, e \in scope.encrypts, core \in BOOLEAN : PostNewMessage(r, e, core)
  \/ \E r \in 1..scope.inflight : WaitTick(r)
  \/ \E r \in 1..scope.inflight : InitialReply(r)
  \/ \E streamId \in StreamIds, p \in Payloads : Deliver(streamId, p)
  \/ \E streamId \in StreamIds, p \in Payloads : DeliverMediaStart(streamId, p)
  \/ \E streamId \in StreamIds, sent \in BOOLEAN : DeliverMediaDone(streamId, sent)
  \/ \E streamId \in StreamIds, posted \in BOOLEAN : DeliverCardDone(streamId, posted)
  \/ \E streamId \in StreamIds : PipeFinish(streamId)
  \/ \E streamId \in StreamIds, m \in ErrorMessages : PipeRaise(streamId, m)
  \/ Tick

Spec == Init /\ [][Next]_vars

\* The webhook with the scheduling of the handler's own continuations: the
\* 25 ms timer of waitForStreamContent fires, time passes while a handler
\* waits, and a handler whose wait has ended goes on to send its reply.
\* Nothing is assumed of the pipeline, which may never call deliver and
\* never settle, nor of further requests.
WaitScopes == ConcurrentScope \cup WaitScope

WaitNext ==
  \/ \E r \in 1..scope.inflight : ReceivePost(r)
  \/ \E r \in 1..scope.inflight : BodyRejected(r)
  \/ \E r \in 1..scope.inflight, e \in scope.encrypts : PostDedupeHit(r, e)
  \/ \E r \in 1..scope.inflight, e \in scope.encrypts : PostStreamRefresh(r, e)
  \/ \E r \in 1..scope.inflight, e \in scope.encrypts : PostKnownMsgid(r, e)
  \/ \E r \in 1..scope.inflight, e \in scope.encrypts, core \in BOOLEAN : PostNewMessage(r, e, core)
  \/ \E r \in 1..scope.inflight : WaitTick(r)
  \/ \E r \in 1..scope.inflight : InitialReply(r)
  \/ \E streamId \in StreamIds, p \in Payloads : Deliver(streamId, p)
  \/ \E streamId \in StreamIds : PipeFinish(streamId)
  \/ \E streamId \in StreamIds, m \in ErrorMessages : PipeRaise(streamId, m)
  \/ Tick
  \/ WaitClock

WaitInit == Init /\ scope \in WaitScopes

SpecWaitFair ==
  /\ WaitInit /\ [][WaitNext]_vars
  /\ WF_vars(Tick) /\ WF_vars(WaitClock)
  /\ \A r \in 1..MaxInFlight : WF_vars(WaitTick(r)) /\ WF_vars(InitialReply(r))

\* The token cache on its own.  The corpIds are alike: the first call is for
\* corpA.
FirstCorpIds == IF calls = EmptyMap THEN {"corpA"} ELSE CorpIds

TokenInit == Init /\ scope \in PipeScope

TokenNext ==
  \/ \E c \in 1..MaxCalls, corpId \in FirstCorpIds : getWecomAccessToken(c, corpId)
  \/ \E id \in 1..MaxRefreshes, json \in GetTokenAnswers : FetchAnswered(id, json)
  \/ \E id \in 1..MaxRefreshes : FetchFailed(id)
  \/ \E id \in 1..MaxRefreshes : FetchRetry(id)
  \/ \E c \in 1..MaxCalls : CallSettles(c)
  \/ TokenTick

SpecToken == TokenInit /\ [][TokenNext]_vars

\* The rate limiter on its own, constructed with any limit up to
\* MaxConcurrent.
LimiterInit == \E n \in 1..MaxConcurrent : InitWith(n) /\ scope \in PipeScope

LimiterNext ==
  \/ \E id \in 1..MaxJobs : execute(id)
  \/ \E due \in 0..(MaxLimiterTime + minInterval) : TimerFires(due)
  \/ \E id \in 1..MaxJobs, ok \in BOOLEAN : FnSettles(id, ok)
  \/ LimiterTick

SpecLimiter == LimiterInit /\ [][LimiterNext]_vars

\* The limiter under the scheduling of the event loop: time passes, a timer
\* that is due fires, and every fn that was called settles.
TimerFiresDue == \E due \in DOMAIN timers : TimerFires(due)

FnSettlesEither == \E id \in 1..MaxJobs, ok \in BOOLEAN : FnSettles(id, ok)

LimiterFairNext ==
  \/ \E id \in 1..MaxJobs : execute(id)
  \/ TimerFiresDue
  \/ FnSettlesEither
  \/ LimiterTimePasses

SpecLimiterFair ==
  /\ LimiterInit /\ [][LimiterFairNext]_vars
  /\ WF_vars(TimerFiresDue) /\ WF_vars(FnSettlesEither) /\ WF_vars(LimiterTimePasses)

\* The encrypted envelope on its own.
CryptoNext ==
  \/ \E account \in Accounts, plaintext \in PlainTexts, random \in Randoms,
        timestamp \in Timestamps, nonce \in Nonces :
       EncryptReply(account, plaintext, timestamp, nonce, random)
  \/ \E reader \in Accounts : DecryptStrict(reader)
  \/ \E reader \in Accounts : DecryptAsBot(reader)

SpecCrypto == TokenInit /\ [][CryptoNext]_vars

\* The webhook dispatch on its own.
DispatchNext ==
  \/ \E account \in TargetAccounts : registerWecomWebhookTarget(account)
  \/ \E post \in WebhookPosts, bodyEnds \in BOOLEAN :
       handleWecomWebhookRequest(post, bodyEnds)
  \/ \E ok \in BOOLEAN : processAppMessageSettles(ok)

SpecDispatch == TokenInit /\ [][DispatchNext]_vars

\* The outbound requests on their own.
OutboundNext ==
  \/ \E op \in ApiOps : fetchWithRetry(op)
  \/ \E ok \in BOOLEAN : FetchAttemptEnds(ok)
  \/ \E op \in FetchOps : DirectFetch(op)

SpecOutbound == TokenInit /\ [][OutboundNext]_vars

\* The calls of fetchWithRetry and the limiter.
RetryNext ==
  \/ \E c \in 1..MaxRetryCalls : RetryCallStarts(c)
  \/ \E c \in 1..MaxRetryCalls : RetryResumes(c)
  \/ \E c \in 1..MaxRetryCalls : RetrySleepEnds(c)
  \/ \E due \in 0..(MaxLimiterTime + minInterval) : TimerFires(due)
  \/ \E id \in 1..MaxRetryJobs, ok \in BOOLEAN : FnSettles(id, ok)
  \/ LimiterTick

SpecRetry == LimiterInit /\ [][RetryNext]_vars

(***************************************************************************)
(* Properties.                                                             *)
(***************************************************************************)
\* The streams that exist before and after a step.
Kept == DOMAIN streams \cap DOMAIN streams'

\* A step that takes up the followed ciphertext as a repeat, each sighting
\* of which so far came within the dedupe TTL of the one before.
RepeatInChain ==
  /\ lastReply'.ask = hist.probe
  /\ hist.chain = "unbroken"
  /\ now - hist.seen <= DEDUPE_TTL_MS

\* The step creates no stream, invokes no pipeline and answers from the
\* stream that the first delivery created.
AnsweredFromFirstStream ==
  /\ nextStreamId' = nextStreamId
  /\ streams' = streams
  /\ pipes' = pipes
  /\ lastReply'.via = "dedupe"
  /\ lastReply'.body.msgtype = "stream"
  /\ lastReply'.body.id = hist.first

\* C1 as stated: every repeat of a ciphertext that comes within the dedupe
\* TTL of the sighting before it creates no stream, invokes no pipeline and
\* is answered from the stream of the first delivery.
C1_EveryRepeatInChainIsDeduped ==
  [][RepeatInChain => AnsweredFromFirstStream]_vars

\* C1, amended: this holds for the repeats that find the stream of the first
\* delivery still in the registry and the ciphertext still in the dedupe map
\* (a stream is evicted ten minutes after its last update or by the entry
\* cap, a dedupe entry by its cap, whatever the spacing of the repeats).
C1_RepeatWithLiveStreamIsDeduped ==
  [][(/\ RepeatInChain
      /\ hist.first \in DOMAIN streams
      /\ \E i \in 1..Len(recentEncrypts) :
           recentEncrypts[i].hash = hashEncryptPayload(hist.probe))
       => AnsweredFromFirstStream]_vars

\* C1 happens: a repeat, later than the first delivery, was answered from
\* the stream of the first delivery.
C1_RepeatAnswered ==
  /\ lastReply.via = "dedupe" /\ lastReply.ask = hist.probe
  /\ hist.chain = "unbroken" /\ hist.seen = now /\ now > 0
  /\ lastReply.body.id = hist.first /\ hist.first \in DOMAIN streams
  /\ streams[hist.first].updatedAt < now

\* Two calls for one corpId that both found no valid token and started
\* before any gettoken attempt that was pending or made since the first of
\* them had ended.
Together(c, d) ==
  /\ c # d
  /\ calls[c].corpId = calls[d].corpId
  /\ ~calls[c].valid /\ ~calls[d].valid
  /\ calls[c].epoch = calls[d].epoch

\* C2 as stated: K >= 2 such calls lead to exactly one gettoken call on the
\* network, and they settle with the same result.
C2_OneNetworkCall ==
  \A c, d \in DOMAIN calls :
    Together(c, d) =>
      /\ calls[c].promise = calls[d].promise
      /\ promises[calls[c].promise].issued = 1
      /\ (calls[c].result.state # "pending" /\ calls[d].result.state # "pending")
           => calls[c].result = calls[d].result

\* C2, amended: K >= 2 such calls share one refresh, which is one run of
\* fetchWithRetry: its gettoken calls go out one after the other, one more
\* for each attempt that failed, at most retries + 1; all the calls settle
\* with the result of that refresh.
C2_OneRefresh ==
  \A c, d \in DOMAIN calls :
    Together(c, d) =>
      /\ calls[c].promise = calls[d].promise
      /\ calls[c].promise \in DOMAIN promises
      /\ LET refresh == promises[calls[c].promise]
         IN  /\ refresh.issued = refresh.attempt + 1
             /\ refresh.issued <= retries + 1
             /\ calls[c].result.state # "pending" =>
                  /\ calls[c].result.state = refresh.state
                  /\ calls[c].result.value = refresh.value
      /\ (calls[c].result.state # "pending" /\ calls[d].result.state # "pending")
           => calls[c].result = calls[d].result

\* C2 happens: two calls made together have settled with the same token,
\* which their refresh got at its second attempt.
C2_CallsSettledAlike ==
  \E c, d \in DOMAIN calls :
    /\ Together(c, d)
    /\ calls[c].result.state = "fulfilled" /\ calls[c].result = calls[d].result
    /\ promises[calls[c].promise].issued = 2

\* The refreshes in flight for a corpId.
InFlight(corpId) ==
  {id \in DOMAIN promises :
     promises[id].corpId = corpId /\ promises[id].state = "pending"}

\* C3: at most one refresh is in flight per corpId, and a call that arrives
\* while one is in flight returns its promise and starts none.
C3_SingleFlight ==
  [][/\ \A corpId \in CorpIds : Cardinality(InFlight(corpId))' <= 1
     /\ \A c \in DOMAIN calls' \ DOMAIN calls :
          \A id \in InFlight(calls'[c].corpId) :
            calls'[c].promise = id /\ promises' = promises]_vars

\* C3 happens: a call has joined the refresh in flight that another call
\* started.
C3_CallJoinedRefresh ==
  \E c, d \in DOMAIN calls :
    /\ c # d /\ calls[c].promise = calls[d].promise
    /\ calls[c].promise \in InFlight(calls[c].corpId)
    /\ calls[c].result.state = "pending" /\ calls[d].result.state = "pending"

\* C4: after every append the content of a stream is at most
\* STREAM_MAX_BYTES bytes of UTF-8.  The code cuts the byte buffer and
\* decodes the cut: each byte of a character that was cut through becomes
\* U+FFFD, three bytes, so the content can be longer than the budget.
C4_ContentWithinBudget ==
  \A id \in DOMAIN streams : ByteLength(streams[id].content) <= STREAM_MAX_BYTES

\* The last STREAM_MAX_BYTES bytes of a content, as they decode.
CutToBudget(content) ==
  LET buf == Utf8Encode(content)
  IN  IF Len(buf) <= STREAM_MAX_BYTES THEN content
      ELSE Utf8Decode(SubSeq(buf, Len(buf) - STREAM_MAX_BYTES + 1, Len(buf)))

\* The step writes the initial reply of the stream it created.
InitialReplySent == lastReply'.via = "initial"

\* The frame of the initial reply is the placeholder for the new stream.
InitialReplyIsPlaceholder ==
  lastReply'.body = [msgtype |-> "stream", id |-> lastReply'.id,
                     finish |-> FALSE, content |-> Thinking]

\* The snapshot has something to show: content, or an error.
SnapshotShows(id) ==
  id \in DOMAIN streams /\ (streams[id].content # <<>> \/ streams[id].error # NoError)

RefreshOfLiveStream ==
  lastReply'.via = "refresh" /\ lastReply'.id \in DOMAIN streams

\* The step creates no stream and invokes no pipeline.
RegistryUntouched ==
  /\ streams' = streams /\ msgidToStreamId' = msgidToStreamId
  /\ nextStreamId' = nextStreamId /\ pipes' = pipes

C7_PipelineOutlivesInitialReply ==
  [][/\ InitialReplySent => pipes' = pipes /\ streams' = streams
     /\ (RefreshOfLiveStream /\ lastReply'.id \in DOMAIN acked) =>
          /\ lastReply'.body.finish = streams'[lastReply'.id].finished
          /\ lastReply'.body.content = CutToBudget(streams'[lastReply'.id].content)
          /\ streams'[lastReply'.id].content # <<>> => lastReply'.body.content # <<>>]_vars

\* C7 happens: the initial reply was the placeholder, and a later refresh
\* shows the text appended since and the finish.
C7_LaterContentRefreshed ==
  /\ lastReply.via = "refresh" /\ lastReply.id \in DOMAIN acked
  /\ acked[lastReply.id].content = Thinking /\ acked[lastReply.id].finish = FALSE
  /\ lastReply.body.finish = TRUE
  /\ lastReply.body.content \notin {<<>>, Thinking, CardSentLabel}

\* C8: once a stream is finished its content is final: no step changes the
\* content of a stream that is finished.  The card path of deliver finishes
\* the stream inside the pipeline, and a later deliver appends to it.
C8_FinishedContentIsFinal ==
  [][\A id \in Kept :
       streams[id].finished => streams'[id].content = streams[id].content]_vars

\* C9: for as long as a stream exists, started and finished never go from
\* true to false.
C9_FlagsOneDirectional ==
  [][\A id \in Kept :
       /\ streams[id].started => streams'[id].started
       /\ streams[id].finished => streams'[id].finished]_vars

\* C9 happens: a finished stream whose pipeline still runs and has written
\* to it after the finish.
C9_FinishedStreamWrittenAgain ==
  \E id \in DOMAIN streams \cap DOMAIN pipes :
    /\ streams[id].started /\ streams[id].finished
    /\ Len(streams[id].content) > Len(CardSentLabel)

\* C10: every finished stream has been started.  Without the agent runtime
\* an ordinary message creates its stream with started = false and then
\* sets finished = true.
C10_FinishedImpliesStarted ==
  \A id \in DOMAIN streams : streams[id].finished => streams[id].started

\* C11: when the reply pipeline raises while its stream is in the registry,
\* the stream is left finished, with the failure message as its error and a
\* content that is not empty: the content accumulated so far, or the text
\* "Error: <message>" if there was none.  A reply built from it afterwards
\* is a stream frame with finish = true.
C11_RaisedPipelineEndsStream ==
  [][\A id \in StreamIds, m \in ErrorMessages :
       (PipeRaise(id, m) /\ id \in DOMAIN streams) =>
         LET before == streams[id]
             after == streams'[id]
         IN  /\ after.finished
             /\ after.error = m
             /\ after.content # <<>>
             /\ after.content = IF before.content # <<>> THEN before.content
                                ELSE ErrorContent(m)
             /\ SnapshotReply(after, id).msgtype = "stream"
             /\ SnapshotReply(after, id).finish
             /\ SnapshotReply(after, id).content # Thinking]_vars

\* A pipeline raised after a deliver call: the stream is finished with the
\* error and the text delivered before the failure.
C11_RaisedWithPartialContent ==
  \E id \in DOMAIN streams :
    /\ streams[id].error = "boom"
    /\ streams[id].finished
    /\ streams[id].content = <<"a">>
    /\ id \notin DOMAIN pipes

\* C12: a POST whose ciphertext does not decrypt is answered with 400 and
\* changes nothing that requests share: the streams, the msgid index, the
\* dedupe map, the stream ids drawn and the pipelines are as before.
C12_DecryptFailureLeavesStateAlone ==
  [][(lastReply'.ask \in BadEncrypts) =>
       /\ lastReply'.status = 400
       /\ lastReply'.body = NoFrame
       /\ UNCHANGED <<streams, msgidToStreamId, recentEncrypts, nextStreamId,
                      pipes, acked>>]_vars

\* A request was answered 400 for its ciphertext while a stream, its msgid
\* and its dedupe entry were in the registry.
C12_DecryptFailedBesideStream ==
  /\ lastReply.via = "undecryptable"
  /\ lastReply.ask \in BadEncrypts
  /\ streams # EmptyMap
  /\ msgidToStreamId # EmptyMap
  /\ recentEncrypts # <<>>

\* The calls whose fn has been called.
Dispatched == {id \in DOMAIN jobs : jobs[id].state # "queued"}

\* C13: any two calls that the limiter has dispatched started at least
\* minInterval apart, whichever calls they are and whatever the limit on
\* the calls in flight.
C13_DispatchesSpaced ==
  \A i, j \in Dispatched :
    i # j => \/ jobs[i].started - jobs[j].started >= minInterval
             \/ jobs[j].started - jobs[i].started >= minInterval

\* With one call in flight at a time, three calls given at the same moment
\* have all been dispatched.
C13_ThreeAtOnceDispatched ==
  /\ limiter.maxConcurrent = 1
  /\ Cardinality(Dispatched) = 3
  /\ \A id \in Dispatched : jobs[id].submitted = 0

\* C14: the running counter is the number of calls dispatched and not yet
\* settled; it is never negative and never above maxConcurrent.
C14_RunningCountsCallsInFlight ==
  /\ limiter.running = Cardinality({id \in DOMAIN jobs : jobs[id].state = "running"})
  /\ limiter.running >= 0
  /\ limiter.running <= limiter.maxConcurrent

\* The limiter is full again after a call was rejected.
C14_FullAfterRejection ==
  /\ limiter.maxConcurrent = MaxConcurrent
  /\ limiter.running = limiter.maxConcurrent
  /\ \E id \in DOMAIN jobs : jobs[id].state = "rejected"

\* C15: calls are dispatched in the order they were given to execute: a
\* call given earlier is dispatched no later than a call given after it,
\* and the queue holds the calls not yet dispatched in the order given.
C15_DispatchInOrderGiven ==
  /\ \A i, j \in DOMAIN jobs :
       (i < j /\ j \in Dispatched) =>
          i \in Dispatched /\ jobs[i].started <= jobs[j].started
  /\ \A a, b \in 1..Len(limiter.queue) :
       a < b => limiter.queue[a] < limiter.queue[b]

\* A call given while an earlier one waited in the queue was dispatched
\* after it, by a timer, with a third call still queued.
C15_LaterCallWaited ==
  /\ Cardinality(Dispatched) = 2
  /\ Len(limiter.queue) = 1
  /\ jobs[2].submitted < jobs[2].started
  /\ jobs[1].state \in {"resolved", "rejected"}
  /\ jobs[3].submitted < jobs[2].started

\* C16: fetchWithRetry makes at most retries + 1 attempts.  An attempt after
\* the first is made only after the one before it failed, and no sooner
\* than retryDelayMs times the number of attempts made so far after that
\* failure.  Once an attempt is answered fetchWithRetry returns that
\* response and makes no further attempt; it throws only when attempt
\* retries + 1 has failed, and a failure of that attempt is never retried.
C16_BoundedSpacedAttempts ==
  [][\A id \in DOMAIN promises' :
       LET q == promises'[id]
       IN  /\ q.issued <= retries + 1
           /\ q.pc = "sleep" => q.issued <= retries
           /\ id \in DOMAIN promises =>
                LET p == promises[id]
                IN  /\ p.fetched # "pending" =>
                          q.fetched = p.fetched /\ q.issued = p.issued
                    /\ q.issued # p.issued =>
                          /\ p.pc = "sleep"
                          /\ q.issued = p.issued + 1
                          /\ now >= p.failedAt + retryDelayMs * p.issued
                    /\ (p.pc = "fetch" /\ q.pc = "sleep") => q.failedAt = now
                    /\ (p.fetched = "pending" /\ q.fetched = "error") =>
                          p.pc = "fetch" /\ p.issued = retries + 1
                    /\ (p.fetched = "pending" /\ q.fetched = "response") =>
                          p.pc = "fetch" /\ q.issued = p.issued]_vars

\* The last attempt allowed was answered, after two failures and the two
\* delays.
C16_LastAttemptAnswered ==
  \E id \in DOMAIN promises :
    /\ promises[id].fetched = "response"
    /\ promises[id].issued = retries + 1
    /\ now >= retryDelayMs + 2 * retryDelayMs

\* C17: when a refresh fails, by the transport error of the last attempt or
\* by an answer without access_token, the cached token and expiry stay as
\* they were and the in-flight marker is cleared; a call that has settled
\* has the outcome of the refresh it awaited, so the callers of a failed
\* refresh get its error; and a call never joins a refresh that has
\* settled: it returns the cached token, joins a pending refresh or starts
\* a new one.
C17_FailedRefreshClearsMarker ==
  [][/\ \A id \in DOMAIN promises :
          (promises[id].state = "pending" /\ promises'[id].state = "rejected") =>
             LET corpId == promises[id].corpId
             IN  /\ accessTokenCaches'[corpId].token = accessTokenCaches[corpId].token
                 /\ accessTokenCaches'[corpId].expiresAt = accessTokenCaches[corpId].expiresAt
                 /\ accessTokenCaches'[corpId].refreshPromise = NoPromise
                 /\ promises'[id].value = NoToken
     /\ \A c \in DOMAIN calls' :
          (calls'[c].promise # NoPromise /\ calls'[c].result.state # "pending") =>
             /\ calls'[c].result.state = promises'[calls'[c].promise].state
             /\ calls'[c].result.value = promises'[calls'[c].promise].value
     /\ \A c \in DOMAIN calls' \ DOMAIN calls :
          calls'[c].promise # NoPromise =>
             /\ promises'[calls'[c].promise].state = "pending"
             /\ promises'[calls'[c].promise].corpId = calls'[c].corpId]_vars

\* A call got the error of a refresh whose attempts all failed, and the
\* next call for the same corpId started another refresh.
C17_NewRefreshAfterFailure ==
  /\ DOMAIN calls = {1, 2}
  /\ calls[1].result.state = "rejected"
  /\ promises[calls[1].promise].fetched = "error"
  /\ calls[2].corpId = calls[1].corpId
  /\ calls[2].promise \notin {NoPromise, calls[1].promise}

\* C18: a call returns the cached token, without a refresh, exactly when a
\* token is cached and its expiry is more than the safety margin ahead; the
\* token returned is the cached one and no refresh is started.
C18_CacheHitIffValidBeyondMargin ==
  [][\A c \in DOMAIN calls' \ DOMAIN calls :
       LET call == calls'[c]
           cache == CacheOf(call.corpId)
           fresh == cache.token # NoToken /\ cache.expiresAt - now > TokenMarginMs
       IN  /\ (call.promise = NoPromise) <=> fresh
           /\ fresh => /\ call.result = [state |-> "fulfilled", value |-> cache.token]
                        /\ promises' = promises
           /\ ~fresh => call.result.state = "pending"]_vars

\* A refresh cached a token for its caller and the next call for the same
\* corpId was answered with that token from the cache.
C18_SecondCallFromCache ==
  /\ DOMAIN calls = {1, 2}
  /\ calls[1].promise # NoPromise
  /\ calls[1].result.state = "fulfilled"
  /\ calls[2].corpId = calls[1].corpId
  /\ calls[2].promise = NoPromise
  /\ calls[2].result = calls[1].result
  /\ accessTokenCaches[calls[2].corpId].token = calls[2].result.value

\* C19: an entry older than its TTL is not found: a request is never
\* answered from a dedupe entry whose timestamp is more than DEDUPE_TTL_MS
\* old, and a dedupe hit or a refresh is never answered from a stream whose
\* updatedAt is more than STREAM_TTL_MS old.
C19_NothingReadPastItsTtl ==
  [][/\ lastReply'.via = "dedupe" =>
          now - DedupeEntryOf(lastReply'.ask).ts <= DEDUPE_TTL_MS
     /\ (lastReply'.via \in {"dedupe", "refresh"}
            /\ lastReply'.id \in DOMAIN streams) =>
          now - streams[lastReply'.id].updatedAt <= STREAM_TTL_MS]_vars

\* A step in which a request enters the webhook handler.
RequestEnters ==
  \/ DOMAIN reqs' \ DOMAIN reqs # {}
  \/ lastReply'.via = "declined" /\ reqs' = reqs

\* C19 as amended: when a request enters the handler no stream whose
\* updatedAt is more than STREAM_TTL_MS old and no dedupe entry more than
\* DEDUPE_TTL_MS old is left in the registry, whatever the request is; and a
\* request is never answered from a dedupe entry that is more than
\* DEDUPE_TTL_MS old when it is looked up.
C19_ExpiredEntriesGoneAtEntry ==
  [][/\ RequestEnters =>
          /\ \A id \in DOMAIN streams' :
                now - streams'[id].updatedAt <= STREAM_TTL_MS
          /\ \A i \in 1..Len(recentEncrypts') :
                now - recentEncrypts'[i].ts <= DEDUPE_TTL_MS
     /\ lastReply'.via = "dedupe" =>
          now - DedupeEntryOf(lastReply'.ask).ts <= DEDUPE_TTL_MS]_vars

\* A refresh named a stream that had been created and was evicted by age,
\* not by the cap, and was answered without it.
C19_RefreshAfterEviction ==
  /\ lastReply.via = "refresh"
  /\ lastReply.id \in 1..nextStreamId
  /\ lastReply.id \notin DOMAIN streams
  /\ nextStreamId <= STREAM_MAX_ENTRIES
  /\ now > STREAM_TTL_MS

\* C20: decryption is the inverse of encryption: a frame encrypted for an
\* account and decrypted with the same key material and receiver id, by
\* decrypt itself or the way the webhook handler decrypts, gives the text
\* that was encrypted.
C20_DecryptInvertsEncrypt ==
  (/\ channel.pc = "read"
   /\ channel.reader.encodingAESKey = channel.account.encodingAESKey
   /\ channel.reader.receiveId = channel.account.receiveId)
    => channel.result = Decrypted(channel.plaintext)

\* A text whose frame fills a padding block, so that a whole block of
\* padding follows it, was encrypted and decrypted with the same account.
C20_FullBlockRoundTrip ==
  /\ channel.pc = "read"
  /\ channel.reader = channel.account
  /\ channel.by = "decryptWecomEncrypted"
  /\ channel.account.receiveId = <<3>>
  /\ Len(channel.plaintext) = MaxPlainLen
  /\ Len(Base64Bytes(channel.encrypt)) = 2 * PadBlock
  /\ channel.result.ok

C22_ReplyFrameSigned ==
  channel.pc # "idle" =>
    LET frame == channel.frame
    IN  /\ DOMAIN frame = {"encrypt", "msg_signature", "timestamp", "nonce"}
        /\ frame.timestamp = channel.query.timestamp
        /\ frame.nonce = channel.query.nonce
        /\ frame.msg_signature =
             computeWecomMsgSignature(channel.account.token, channel.query.timestamp,
                                      channel.query.nonce, frame.encrypt)
        /\ verifyWecomSignature(channel.account.token, channel.query.timestamp,
                                channel.query.nonce, frame.encrypt,
                                frame.msg_signature)

\* A frame was signed for an account whose token sorts between the
\* timestamp and the nonce, and another token does not verify it.
C22_SignedWithSelectedToken ==
  /\ channel.pc = "sent"
  /\ channel.account.token = <<2, 6>>
  /\ channel.query = [timestamp |-> <<1, 0>>, nonce |-> <<4>>]
  /\ channel.plaintext # <<>>
  /\ verifyWecomSignature(<<2, 6>>, <<1, 0>>, <<4>>, channel.frame.encrypt,
                          channel.frame.msg_signature)
  /\ ~verifyWecomSignature(<<6>>, <<1, 0>>, <<4>>, channel.frame.encrypt,
                           channel.frame.msg_signature)

\* The POST's signature verifies with `secret`.
PostVerifies(secret) ==
  verifyWecomSignature(secret, dispatch.post.timestamp, dispatch.post.nonce,
                       dispatch.post.encrypt, dispatch.post.signature)

\* The targets with the mode and the credentials of the polling variant
\* whose token verifies the POST, and those of the ACK/push variant.
BotVerified ==
  {i \in 1..Len(dispatch.targets) :
     /\ shouldHandleBot(dispatch.targets[i])
     /\ dispatch.targets[i].token # <<>>
     /\ dispatch.targets[i].encodingAESKey # <<>>
     /\ PostVerifies(dispatch.targets[i].token)}

AppVerified ==
  {i \in 1..Len(dispatch.targets) :
     /\ shouldHandleApp(dispatch.targets[i])
     /\ dispatch.targets[i].callbackToken # <<>>
     /\ dispatch.targets[i].callbackAesKey # <<>>
     /\ PostVerifies(dispatch.targets[i].callbackToken)}

C24_FirstVerifiedAccountUsed ==
  dispatch.pc # "idle" =>
    LET targets == dispatch.targets
        bot == dispatch.bot
        app == dispatch.app
    IN  /\ bot.key # <<>> =>
             /\ BotVerified # {}
             /\ bot.target = FirstIndex(BotVerified)
             /\ bot.key = targets[bot.target].encodingAESKey
             /\ bot.frame # NoSignedFrame =>
                  verifyWecomSignature(targets[bot.target].token,
                                       bot.frame.timestamp, bot.frame.nonce,
                                       bot.frame.encrypt, bot.frame.msg_signature)
        /\ app.key # <<>> =>
             /\ AppVerified # {}
             /\ app.target = FirstIndex(AppVerified)
             /\ app.key = targets[app.target].callbackAesKey
        /\ bot.target # 0 => PostVerifies(targets[bot.target].token)
        /\ app.target # 0 => PostVerifies(targets[app.target].callbackToken)
        /\ (/\ bot.tried
            /\ \A i \in 1..Len(targets) :
                  shouldHandleBot(targets[i]) => ~PostVerifies(targets[i].token))
             => ~bot.handled /\ bot.res = NoResponse /\ ~bot.created
        /\ (/\ app.tried
            /\ \A i \in 1..Len(targets) :
                  shouldHandleApp(targets[i]) => ~PostVerifies(targets[i].callbackToken))
             => ~app.handled /\ app.res = NoResponse /\ ~app.created

\* The first target's token does not verify the POST, the second one's
\* does, and the reply is signed for the second.
C24_SecondTargetSelected ==
  /\ dispatch.pc = "done"
  /\ dispatch.by = "bot"
  /\ Len(dispatch.targets) = 2
  /\ shouldHandleBot(dispatch.targets[1])
  /\ dispatch.targets[1].token # <<>>
  /\ ~PostVerifies(dispatch.targets[1].token)
  /\ dispatch.bot.target = 2
  /\ dispatch.bot.frame # NoSignedFrame
  /\ dispatch.bot.created

\* C25: a POST with an XML body, an Encrypt and a signature that verifies
\* for a target of the ACK/push variant is answered 200 `success` also when
\* a target on the path is enabled for the polling variant.
C25_XmlPostAcked ==
  (/\ dispatch.pc # "idle"
   /\ dispatch.post.kind = "xml"
   /\ dispatch.post.encrypt # <<>>
   /\ AppVerified # {}
   /\ \E i \in 1..Len(dispatch.targets) : shouldHandleBot(dispatch.targets[i]))
    => dispatch.res = [status |-> 200, body |-> "success"]

EventAnswered ==
  /\ DOMAIN reqs' # DOMAIN reqs
  /\ DOMAIN reqs' \subseteq DOMAIN reqs
  /\ lastReply'.status = 200
  /\ parseWecomPlainMessage(lastReply'.ask).msgtype = "event"

\* The step creates no stream, records no dedupe entry and invokes no
\* pipeline.
NothingCreated ==
  /\ streams' = streams
  /\ nextStreamId' = nextStreamId
  /\ pipes' = pipes
  /\ {recentEncrypts'[i].hash : i \in 1..Len(recentEncrypts')}
       \subseteq {recentEncrypts[i].hash : i \in 1..Len(recentEncrypts)}

\* The answer is the empty frame, or the welcome text for enter_chat.
AckOrWelcome ==
  \/ lastReply'.body = EmptyFrame
  \/ /\ lastReply'.body = WelcomeFrame
     /\ parseWecomPlainMessage(lastReply'.ask).eventtype = "enter_chat"

\* C27: an event delivery creates no stream, records no dedupe entry and
\* invokes no pipeline, and is answered with the empty frame or, for
\* enter_chat, the welcome text.
C27_EventsCreateNothing ==
  [][EventAnswered => NothingCreated /\ AckOrWelcome]_vars

\* C27 as amended: that holds of every event other than
\* template_card_event.  A template_card_event whose msgid is not indexed
\* is answered with the empty frame, creates a started stream, records a
\* dedupe entry for its ciphertext and invokes the pipeline (without a
\* runtime the stream is finished at once); one whose msgid is indexed is
\* answered with the empty frame and creates nothing; one that is a dedupe
\* hit is answered from its stream and creates nothing.
C27_OnlyCardEventsCreate ==
  [][EventAnswered =>
       LET e == lastReply'.ask
           msg == parseWecomPlainMessage(e)
           id == nextStreamId + 1
       IN  IF msg.eventtype # "template_card_event"
           THEN NothingCreated /\ AckOrWelcome
           ELSE IF lastReply'.via = "dedupe"
           THEN /\ NothingCreated
                /\ lastReply'.id \in DOMAIN streams
                /\ lastReply'.body = SnapshotReply(streams[lastReply'.id], lastReply'.id)
           ELSE IF msg.msgid # NoMsgid /\ msg.msgid \in DOMAIN msgidToStreamId
           THEN NothingCreated /\ lastReply'.body = EmptyFrame
           ELSE /\ lastReply'.body = EmptyFrame
                /\ nextStreamId' = id
                /\ id \in DOMAIN streams' /\ id \notin DOMAIN streams
                /\ streams'[id].started
                /\ msgidToStreamId'[msg.msgid] = id
                /\ \E i \in 1..Len(recentEncrypts') :
                      recentEncrypts'[i] = [hash |-> hashEncryptPayload(e),
                                            ts |-> now, streamId |-> id]
                /\ IF id \in DOMAIN pipes' THEN ~streams'[id].finished
                   ELSE streams'[id].finished]_vars

\* A template_card_event was answered with the empty frame and left a
\* started stream, a dedupe entry and a running pipeline.
C27_CardEventStartedPipeline ==
  /\ lastReply.via = "card"
  /\ lastReply.body = EmptyFrame
  /\ lastReply.id \in DOMAIN streams
  /\ streams[lastReply.id].started
  /\ lastReply.id \in DOMAIN pipes
  /\ \E i \in 1..Len(recentEncrypts) :
        /\ recentEncrypts[i].hash = hashEncryptPayload(lastReply.ask)
        /\ recentEncrypts[i].streamId = lastReply.id

\* A step that takes up the followed ciphertext again while the request of
\* its first delivery is suspended at the initial-content wait.
DuplicateBesideFirst ==
  /\ lastReply'.ask = hist.probe
  /\ hist.chain # "unseen"
  /\ \E q \in DOMAIN reqs \cap DOMAIN reqs' :
       /\ reqs[q].pc \in {"wait", "resolved"}
       /\ reqs[q].streamId = hist.first

\* C28 as stated: of two requests that carry the same ciphertext and are in
\* flight together, one creates a stream and invokes the pipeline; the other
\* one creates no stream, invokes no pipeline and is answered, as a dedupe
\* hit, from the stream of the first.
C28_ConcurrentDuplicateDeduped ==
  [][DuplicateBesideFirst => AnsweredFromFirstStream]_vars

\* C28, amended: this holds when the dedupe entry that the first request
\* recorded is still in the map and within its TTL and the stream it names
\* is still in the registry (the lookup and the recording run without a
\* suspension between them, so the second request cannot miss the entry for
\* any other reason); the answer is then the snapshot of that stream.
C28_DuplicateWithLiveEntryDeduped ==
  [][(/\ DuplicateBesideFirst
      /\ \E i \in 1..Len(recentEncrypts) :
           /\ recentEncrypts[i].hash = hashEncryptPayload(hist.probe)
           /\ recentEncrypts[i].streamId = hist.first
           /\ now - recentEncrypts[i].ts <= DEDUPE_TTL_MS
      /\ hist.first \in DOMAIN streams)
       => /\ AnsweredFromFirstStream
          /\ lastReply'.body = SnapshotReply(streams[hist.first], hist.first)]_vars

\* A request was answered from the stream that a request with the same
\* ciphertext, still waiting for its initial content, had created.
C28_DuplicateAnsweredBesideWaiting ==
  /\ lastReply.via = "dedupe"
  /\ lastReply.ask = hist.probe
  /\ lastReply.id = hist.first
  /\ parseWecomPlainMessage(hist.probe).msgid = NoMsgid
  /\ nextStreamId = 1
  /\ \E q \in DOMAIN reqs : reqs[q].pc = "wait" /\ reqs[q].streamId = hist.first

\* C29: when pruneStreams has returned, no stream has an updatedAt more than
\* STREAM_TTL_MS old, at most STREAM_MAX_ENTRIES streams are left, the
\* streams left are unchanged, and no stream left has a smaller updatedAt
\* than a stream that was evicted.
C29_StreamsPrunedOldestFirst ==
  [][RequestEnters =>
       /\ \A id \in DOMAIN streams' : ~(now - streams'[id].updatedAt > STREAM_TTL_MS)
       /\ Cardinality(DOMAIN streams') <= STREAM_MAX_ENTRIES
       /\ DOMAIN streams' \subseteq DOMAIN streams
       /\ \A kept \in DOMAIN streams' :
            /\ streams'[kept] = streams[kept]
            /\ \A gone \in DOMAIN streams \ DOMAIN streams' :
                 streams[gone].updatedAt <= streams[kept].updatedAt]_vars

\* The cap evicted the second stream and kept the first, which had been
\* updated later; no stream was old enough to expire.
C29_CapEvictedStalestStream ==
  /\ nextStreamId = STREAM_MAX_ENTRIES + 1
  /\ DOMAIN streams = {1, 3}
  /\ now <= STREAM_TTL_MS
  /\ lastReply = NoReply
  /\ \E r \in DOMAIN reqs : reqs[r].pc = "body"

\* C30: when pruneStreams has returned, no dedupe entry has a timestamp more
\* than DEDUPE_TTL_MS old, at most DEDUPE_MAX_ENTRIES entries are left, the
\* entries left are unchanged and in their order, and no entry left has an
\* older timestamp than an entry that was evicted.
C30_DedupePrunedOldestFirst ==
  [][RequestEnters =>
       /\ \A i \in 1..Len(recentEncrypts') :
            ~(now - recentEncrypts'[i].ts > DEDUPE_TTL_MS)
       /\ Len(recentEncrypts') <= DEDUPE_MAX_ENTRIES
       /\ \E keep \in SUBSET (1..Len(recentEncrypts)) :
            /\ recentEncrypts' = KeepIndices(recentEncrypts, keep, 1)
            /\ \A i \in keep, j \in (1..Len(recentEncrypts)) \ keep :
                 recentEncrypts[j].ts <= recentEncrypts[i].ts]_vars

\* The cap evicted the dedupe entry of the second stream, whose stream is
\* still registered, and kept the entry of the first, which a repeat had
\* refreshed; no entry was old enough to expire.
C30_CapEvictedOldestEntry ==
  /\ nextStreamId = DEDUPE_MAX_ENTRIES + 1
  /\ Len(recentEncrypts) = DEDUPE_MAX_ENTRIES
  /\ recentEncrypts[1].streamId = 1
  /\ recentEncrypts[2].streamId = 3
  /\ 2 \in DOMAIN streams
  /\ now <= DEDUPE_TTL_MS
  /\ lastReply = NoReply
  /\ \E r \in DOMAIN reqs : reqs[r].pc = "body"

\* The dedupe entry that a step answered from, as it was before the step.
HitEntry == DedupeEntryOf(lastReply'.ask)

\* C31: a dedupe hit whose stream exists is answered from the stream's
\* snapshot (a stream frame with the stream's id, finished flag and content
\* when the content is non-empty or an error is set, the placeholder for the
\* stream's id otherwise), sets the entry's timestamp to the current time
\* and leaves every other entry, the streams and the pipelines as they were.
C31_DedupeHitFromSnapshot ==
  [][lastReply'.via = "dedupe" =>
       /\ HitEntry.streamId \in DOMAIN streams
       /\ lastReply'.status = 200
       /\ lastReply'.body =
            IF \/ streams[HitEntry.streamId].error \notin {NoError, ""}
               \/ streams[HitEntry.streamId].content # <<>>
            THEN [msgtype |-> "stream", id |-> HitEntry.streamId,
                  finish |-> streams[HitEntry.streamId].finished,
                  content |-> CutToBudget(streams[HitEntry.streamId].content)]
            ELSE [msgtype |-> "stream", id |-> HitEntry.streamId,
                  finish |-> FALSE, content |-> Thinking]
       /\ Len(recentEncrypts') = Len(recentEncrypts)
       /\ \A i \in 1..Len(recentEncrypts) :
            recentEncrypts'[i] =
              IF recentEncrypts[i].hash = hashEncryptPayload(lastReply'.ask)
              THEN [recentEncrypts[i] EXCEPT !.ts = now]
              ELSE recentEncrypts[i]
       /\ RegistryUntouched]_vars

\* A dedupe hit later than the delivery was answered with the frame of a
\* finished stream, and its entry carries the time of the hit.
C31_HitOnFinishedStream ==
  /\ lastReply.via = "dedupe"
  /\ lastReply.body.finish
  /\ now > 0
  /\ \E i \in 1..Len(recentEncrypts) :
       /\ recentEncrypts[i].hash = hashEncryptPayload(lastReply.ask)
       /\ recentEncrypts[i].ts = now
       /\ streams[recentEncrypts[i].streamId].updatedAt < now

\* C32: a step that answers a stream refresh request or a dedupe hit leaves
\* every stream of the registry (content, started, finished, error,
\* updatedAt) as it was, and adds and removes none.
C32_SnapshotReadOnly ==
  [][lastReply'.via \in {"refresh", "dedupe"} =>
       /\ DOMAIN streams' = DOMAIN streams
       /\ \A id \in DOMAIN streams :
            /\ streams'[id].content = streams[id].content
            /\ streams'[id].started = streams[id].started
            /\ streams'[id].finished = streams[id].finished
            /\ streams'[id].error = streams[id].error
            /\ streams'[id].updatedAt = streams[id].updatedAt]_vars

\* A refresh was answered from a stream that was last updated before, and
\* whose pipeline still runs.
C32_RefreshedLaterThanUpdated ==
  /\ lastReply.via = "refresh"
  /\ lastReply.id \in DOMAIN streams
  /\ streams[lastReply.id].updatedAt < now
  /\ ~streams[lastReply.id].finished
  /\ lastReply.body.content = CutToBudget(streams[lastReply.id].content)

\* The limiter calls of call c that are queued or in flight.
AttemptsPending(c, j) ==
  {id \in DOMAIN j : j[id].call = c /\ j[id].state \in {"queued", "running"}}

\* C33: at most one attempt of a call of fetchWithRetry is queued or in
\* flight at any instant; an attempt after the first is given to the
\* limiter only when the attempt before it has settled with a rejection and
\* the retry delay has passed since, and it is the next in number.
C33_AttemptsSequential ==
  [][\A c \in DOMAIN outbound'.retry :
       /\ Cardinality(AttemptsPending(c, jobs')) <= 1
       /\ \A id \in DOMAIN jobs' \ DOMAIN jobs :
            (jobs'[id].call = c /\ jobs'[id].attempt > 0) =>
              /\ c \in DOMAIN outbound.retry
              /\ jobs'[id].attempt = outbound.retry[c].attempt + 1
              /\ jobs'[id].attempt <= retries
              /\ jobs[outbound.retry[c].job].state = "rejected"
              /\ jobs[outbound.retry[c].job].attempt = outbound.retry[c].attempt
              /\ AttemptsPending(c, jobs) = {}
              /\ outbound.retry[c].pc = "sleep"
              /\ outbound.retry[c].failedAt >= jobs[outbound.retry[c].job].started
              /\ now >= outbound.retry[c].failedAt
                          + retryDelayMs * jobs'[id].attempt]_vars

\* The second attempt of a call waits in the limiter's queue while an
\* attempt of another call is in flight.
C33_RetryQueuedBehindOtherCall ==
  \E c \in DOMAIN outbound.retry, id \in DOMAIN jobs, other \in DOMAIN jobs :
    /\ outbound.retry[c].attempt = 1 /\ outbound.retry[c].job = id
    /\ jobs[id].state = "queued"
    /\ jobs[other].call # c /\ jobs[other].state = "running"

\* The number of times call id is in the limiter's queue.
TimesQueued(id) ==
  Cardinality({i \in 1..Len(limiter.queue) : limiter.queue[i] = id})

\* C36: a call given to execute is in the queue once until it is dispatched
\* and never after, so it is dispatched once; once dispatched it settles
\* once and keeps its outcome; and every call given to execute is
\* eventually dispatched and settled, whether the calls before it resolve
\* or reject.
C36_EveryCallDispatchedOnce ==
  /\ [](\A id \in DOMAIN jobs :
          TimesQueued(id) = IF jobs[id].state = "queued" THEN 1 ELSE 0)
  /\ [][\A id \in DOMAIN jobs :
          /\ id \in DOMAIN jobs'
          /\ jobs[id].state # "queued" =>
               jobs'[id].state # "queued" /\ jobs'[id].started = jobs[id].started
          /\ jobs[id].state \in {"resolved", "rejected"} => jobs'[id] = jobs[id]
          /\ (jobs[id].state = "queued" /\ jobs'[id].state # "queued") =>
               jobs'[id].state = "running"]_vars
  /\ \A id \in 1..MaxJobs :
       (id \in DOMAIN jobs) ~>
         (id \in DOMAIN jobs /\ jobs[id].state \in {"resolved", "rejected"})

\* A call that waited in the queue behind a call that was rejected has been
\* dispatched later than it was given and has resolved.
C36_ResolvedBehindRejected ==
  \E a \in DOMAIN jobs, b \in DOMAIN jobs :
    /\ a < b
    /\ jobs[a].state = "rejected" /\ jobs[b].state = "resolved"
    /\ jobs[b].submitted < jobs[a].started + 1
    /\ jobs[b].started > jobs[b].submitted
    /\ jobs[b].started >= jobs[a].started

\* C34: a refresh request for a stream that was created and whose pipeline
\* is not running any more (it resolved or raised, or none was started) is
\* answered with a stream frame of that id with finish = true, whether the
\* stream is in the registry or was evicted.
C34_RefreshAfterPipelineEnds ==
  [][(/\ lastReply'.via = "refresh"
      /\ lastReply'.id \in 1..nextStreamId
      /\ lastReply'.id \notin DOMAIN pipes)
       => /\ lastReply'.status = 200
          /\ lastReply'.body.msgtype = "stream"
          /\ lastReply'.body.id = lastReply'.id
          /\ lastReply'.body.finish]_vars

\* A refresh was answered with finish = true from a stream whose pipeline
\* had raised.
C34_RefreshOfFailedStream ==
  /\ lastReply.via = "refresh"
  /\ lastReply.id \in DOMAIN streams
  /\ lastReply.id \notin DOMAIN pipes
  /\ streams[lastReply.id].error = "boom"
  /\ lastReply.body.finish

\* C35: a handler that created a stream for an ordinary message and waits
\* for it, or has ended its wait, eventually sends the initial reply of that
\* stream, whatever the pipeline does and whether or not the stream stays in
\* the registry; and a wait ends only on an error, a finish, content, the
\* absence of the stream or the bound.
Waiting(r, id) ==
  /\ r \in DOMAIN reqs
  /\ reqs[r].pc \in {"wait", "resolved"}
  /\ reqs[r].streamId = id

C35_InitialReplyEventuallySent ==
  /\ \A r \in 1..MaxInFlight :
       (\E id \in 1..MaxStreams : Waiting(r, id)) ~> (r \notin DOMAIN reqs)
  /\ [][\A r \in DOMAIN reqs, id \in 1..MaxStreams :
          (Waiting(r, id) /\ r \notin DOMAIN reqs')
            => /\ lastReply'.via = "initial" /\ lastReply'.id = id
               /\ lastReply'.status = 200
               /\ lastReply'.body.msgtype = "stream" /\ lastReply'.body.id = id]_vars
  /\ [][\A r \in DOMAIN reqs :
          (reqs[r].pc = "wait" /\ r \in DOMAIN reqs' /\ reqs'[r].pc = "resolved")
            => LET id == reqs[r].streamId
               IN  \/ id \notin DOMAIN streams
                   \/ Truthy(streams[id].error)
                   \/ streams[id].finished
                   \/ streams[id].content # <<>>
                   \/ now - reqs[r].startedAt >= InitialWaitMs]_vars

\* The initial reply of a stream that was evicted while its handler waited
\* and whose pipeline still runs.
C35_RepliedAfterEviction ==
  /\ lastReply.via = "initial"
  /\ lastReply.id \notin DOMAIN streams
  /\ lastReply.id \in DOMAIN pipes
  /\ lastReply.id \in DOMAIN acked

\* C37: every stream in the registry that has a msgid is the stream the
\* msgid index maps that msgid to, so no two streams in the registry have
\* the same msgid; and a request that carries the msgid of a stream in the
\* registry and is not a stream refresh, whatever its ciphertext, adds no
\* stream and starts no pipeline.
StreamOfMsgid(m) == {id \in DOMAIN streams : streams[id].msgid = m}

CarriesLiveMsgid(e) ==
  /\ e.tag # "stream"
  /\ parseWecomPlainMessage(e).msgid # NoMsgid
  /\ StreamOfMsgid(parseWecomPlainMessage(e).msgid) # {}

C37_OneLiveStreamPerMsgid ==
  /\ [](\A id \in DOMAIN streams :
          streams[id].msgid # NoMsgid
            => /\ streams[id].msgid \in DOMAIN msgidToStreamId
               /\ msgidToStreamId[streams[id].msgid] = id)
  /\ [][\A e \in Encrypts :
          (lastReply'.ask = e /\ CarriesLiveMsgid(e))
            => /\ DOMAIN streams' = DOMAIN streams
               /\ nextStreamId' = nextStreamId
               /\ DOMAIN pipes' \subseteq DOMAIN pipes
               /\ lastReply'.via \in {"dedupe", "known", "event"}]_vars

\* A second ciphertext of the msgid of a stream in the registry was answered
\* with the placeholder of that stream.
C37_OtherCiphertextSameMsgid ==
  /\ lastReply.via = "known"
  /\ lastReply.ask = Text(2)
  /\ lastReply.id \in DOMAIN streams
  /\ streams[lastReply.id].msgid = "m1"
  /\ lastReply.id \in DOMAIN pipes

\* C38: when pruneStreams has run at the entry of a request, every entry of
\* the msgid index refers to a stream in the registry.
C38_IndexedStreamsPresent ==
  [][RequestEnters
       => \A m \in DOMAIN msgidToStreamId' :
            msgidToStreamId'[m] \in DOMAIN streams']_vars

\* C39: a step of the pipeline of a stream that is not in the registry (a
\* deliver call, the end of a media upload or of a card POST, the
\* completion or the failure of the pipeline) leaves the registry as it
\* is: the stream is not created again and no other stream changes.
\* A step of some pipeline: a deliver call, or a change of a pipeline that
\* was already there.
PipelineStep ==
  /\ DOMAIN pipes' \subseteq DOMAIN pipes
  /\ delivered' # delivered \/ pipes' # pipes

\* The pipelines that may have taken the step: the one that changed or, for
\* a deliver call that returned at once, one that was ready to deliver.
Stepped ==
  IF pipes' # pipes
  THEN {id \in DOMAIN pipes : id \notin DOMAIN pipes' \/ pipes'[id] # pipes[id]}
  ELSE {id \in DOMAIN pipes : pipes[id].pc = "run"}

C39_LatePipelineStepDropped ==
  [][PipelineStep
       => /\ DOMAIN streams' = DOMAIN streams
          /\ (\A id \in Stepped : id \notin DOMAIN streams)
               => /\ streams' = streams
                  /\ msgidToStreamId' = msgidToStreamId
                  /\ recentEncrypts' = recentEncrypts]_vars

\* A deliver callback is suspended in the POST of a card while its stream
\* has been evicted: the callback goes on without its stream.
C39_CallbackAcrossEviction ==
  /\ nextStreamId = 1
  /\ 1 \notin DOMAIN streams
  /\ 1 \in DOMAIN pipes
  /\ pipes[1].pc = "card"
  /\ now = MaxTime

\* C40 as stated: in every state the registry has at most
\* STREAM_MAX_ENTRIES streams plus one for each request in flight, and the
\* dedupe registry at most DEDUPE_MAX_ENTRIES entries plus the same number.
C40_BoundedByRequestsInFlight ==
  /\ Cardinality(DOMAIN streams) <= STREAM_MAX_ENTRIES + Cardinality(DOMAIN reqs)
  /\ Len(recentEncrypts) <= DEDUPE_MAX_ENTRIES + Cardinality(DOMAIN reqs)

\* C40 as amended: in every state the registry has at most
\* STREAM_MAX_ENTRIES streams plus the largest number of requests that are
\* in flight together, and the dedupe registry at most DEDUPE_MAX_ENTRIES
\* entries plus the same number; the handlers that can still add an entry
\* count against that number.
StillToAdd == Cardinality({r \in DOMAIN reqs : reqs[r].pc = "body"})

C40_BoundedByRequestsTogether ==
  /\ Cardinality(DOMAIN streams) + StillToAdd <= STREAM_MAX_ENTRIES + scope.inflight
  /\ Len(recentEncrypts) + StillToAdd <= DEDUPE_MAX_ENTRIES + scope.inflight

\* Both registries are over their caps by one entry while no request is in
\* flight, in a scope that allows more streams than that.
C40_OverTheCapAtRest ==
  /\ reqs = EmptyMap
  /\ Cardinality(DOMAIN streams) = STREAM_MAX_ENTRIES + 1
  /\ Len(recentEncrypts) = DEDUPE_MAX_ENTRIES + 1
  /\ scope.streams > STREAM_MAX_ENTRIES + scope.inflight

====
